---- MODULE Spec2Model ----
(***************************************************************************)
(* Verification model of bantling/gomicro: the buffered pull iterator      *)
(* (package iter) and the Stream/Finisher pipeline (package stream).       *)
(***************************************************************************)
EXTENDS Integers, Sequences, FiniteSets, TLC

----------------------------------------------------------------------------
(* Bounds *)

\* longest source sequence given to Of(...)
MaxLen == 2
\* largest int element
MaxInt == 2
\* longest push-back buffer explored
MaxBuf == 2
\* longest recorded history of successful Value calls
MaxReturned == 3
\* longest source of a parallel terminal call
MaxParLen == 3
\* most stages composed onto a Stream, and onto a Finisher
MaxStreamStages == 1
MaxFinStages == 2
\* most Finisher stages of a pipeline run in parallel
MaxParFinStages == 1
\* largest argument of Skip and Limit
MaxStageN == 1
\* largest ParallelConfig.NumberOfItems
MaxItems == 2
\* most terminal calls made one after another on one Finisher
MaxCalls == 2
\* most goroutines sharing one Finisher
MaxThreads == 2
\* most stage calls made on a Stream, and on a Finisher, while it is built
MaxBuildStream == 3
MaxBuildFin == 2
\* longest source a built pipeline is tried on
MaxSrcLen == 3
\* largest argument of Limit over an unending source, and largest seed of Iterate
MaxLimit == 3
MaxSeed == 1
\* the largest n of a Skip(n) stage added call by call
MaxSkipN == 2
\* the size of the buffer of ToByteWriter (64 * 1024 in the source), scaled down
toWriterBufSize == 2
\* the longest source handed to ToByteWriter
MaxBytes == 5
\* the most iterators given to Concat
MaxConcat == 3
\* the most runes in a reader
MaxRunes == 4
\* the most elements read from a source that never ends
MaxDrain == 4

----------------------------------------------------------------------------
(* State *)

VARIABLES
  given,     \* the values given to Of(...) for the iterator under test
  itr,       \* the Iter under test
  op,        \* the last call made on itr, with what it returned; in a Match or
             \* ToByteWriter call, the call's arguments and local variables
  returned,  \* the values returned by the successful Value calls, in call order
  hist,      \* what the caller has observed so far (see HistInit)
  finisher,  \* the Finisher under test
  input,     \* the source values of the current terminal call
  pconf,     \* the ParallelConfig of the current terminal call, or NoConfig
  current,   \* the Iter returned by the current terminal call
  output,    \* the values pulled from current so far
  finished,  \* current.Next() has returned false, or the terminal call has returned
  par,       \* the progress of doParallel in the current terminal call
  calls,     \* the terminal calls made on finisher so far
  threads,   \* the goroutines that share finisher, each in a terminal call of its own
  built      \* the stage calls made on the Stream and on the Finisher, in call order

vars ==
  <<given, itr, op, returned, hist,
    finisher, input, pconf, current, output, finished, par, calls, threads, built>>
iterVars == <<given, itr, op, returned, hist>>
pipeVars == <<finisher, input, pconf, current, output, finished, par, calls, threads, built>>

----------------------------------------------------------------------------
(* Values: a Go interface{} is a (dynamic type, value) pair *)

Nil == [kind |-> "nil", n |-> 0, elems |-> <<>>]
IntV(i) == [kind |-> "int", n |-> i, elems |-> <<>>]
ArrV(s) == [kind |-> "array", n |-> 0, elems |-> s]

Ints == {IntV(i) : i \in 1..MaxInt}

RECURSIVE SeqsUpTo(_, _)
SeqsUpTo(S, n) ==
  IF n = 0 THEN {<<>>}
  ELSE LET shorter == SeqsUpTo(S, n - 1)
       IN shorter \cup {Append(s, x) : s \in {t \in shorter : Len(t) = n - 1}, x \in S}

Front(s) == SubSeq(s, 1, Len(s) - 1)
Last(s) == s[Len(s)]

----------------------------------------------------------------------------
(* package iter: error constants *)

ErrValueExhaustedIter == "Iter.Value called on exhausted iterator"
ErrValueNextFirst == "Iter.Next has to be called before iter.Value"
ErrUnreadExhaustedIter == "Iter.Unread called on exhausted iterator"
ErrColsGreaterThanZero == "cols must be > 0"
ErrRowsGreaterThanZero == "rows must be > 0"
\* the panic of reflect.Value.Convert for a value that cannot be converted
ErrNotConvertible == "reflect.Value.Convert: value cannot be converted"
NoPanic == "none"

----------------------------------------------------------------------------
(* package iter: iterating functions and the Iter type.                    *)
(* An iterating function is a closure; it is modelled by the record of its *)
(* captured variables.  Iter.iter is either such a record or NilFunc.      *)

NilFunc == [kind |-> "nilfunc"]
IsNilFunc(f) == f.kind = "nilfunc"

RECURSIVE Call(_)
RECURSIVE IterNext(_)
RECURSIVE IterToSliceLoop(_, _)
RECURSIVE ApplyTransform(_, _)
RECURSIVE Generate(_)
RECURSIVE FinisherIter(_, _, _)

\* ArraySliceIterFunc: the closure over (arraySlice, num, idx)
ArraySliceIterFunc(arraySlice) == [kind |-> "ArraySlice", items |-> arraySlice, idx |-> 0]

\* one invocation of the closure returned by ArraySliceIterFunc
ArraySliceCall(p) ==
  IF p.idx = Len(p.items)
  THEN [p |-> p, val |-> Nil, ok |-> FALSE]
  ELSE [p |-> [p EXCEPT !.idx = p.idx + 1], val |-> p.items[p.idx + 1], ok |-> TRUE]

\* NewIter
NewIter(iter) == [iter |-> iter, nextCalled |-> FALSE, value |-> Nil, buffer |-> <<>>]

\* Of
Of(items) == NewIter(ArraySliceIterFunc(items))

\* OfElements, for an argument that is a slice
OfElements(item) == NewIter(ArraySliceIterFunc(item))

\* Iter.Next without the early return on nextCalled
IterNextNoIdem(it) ==
  IF IsNilFunc(it.iter) THEN [it |-> it, ret |-> FALSE, invoked |-> 0]
  ELSE IF Len(it.buffer) > 0
       THEN [it |-> [it EXCEPT !.nextCalled = TRUE,
                               !.value = Last(it.buffer),
                               !.buffer = Front(it.buffer)],
             ret |-> TRUE, invoked |-> 0]
  ELSE LET Invoked(r) ==
             IF r.ok
             THEN [it |-> [it EXCEPT !.iter = r.p, !.nextCalled = TRUE, !.value = r.val],
                   ret |-> TRUE, invoked |-> 1]
             ELSE [it |-> [it EXCEPT !.iter = NilFunc], ret |-> FALSE, invoked |-> 1]
       IN Invoked(Call(it.iter))

\* Iter.Next that answers a repeated call with false
IterNextRepeatFalse(it) ==
  IF IsNilFunc(it.iter) THEN [it |-> it, ret |-> FALSE, invoked |-> 0]
  ELSE IF it.nextCalled THEN [it |-> it, ret |-> FALSE, invoked |-> 0]
  ELSE IF Len(it.buffer) > 0
       THEN [it |-> [it EXCEPT !.nextCalled = TRUE,
                               !.value = Last(it.buffer),
                               !.buffer = Front(it.buffer)],
             ret |-> TRUE, invoked |-> 0]
  ELSE LET Invoked(r) ==
             IF r.ok
             THEN [it |-> [it EXCEPT !.iter = r.p, !.nextCalled = TRUE, !.value = r.val],
                   ret |-> TRUE, invoked |-> 1]
             ELSE [it |-> [it EXCEPT !.iter = NilFunc], ret |-> FALSE, invoked |-> 1]
       IN Invoked(Call(it.iter))

\* Iter.Next that does not clear it.iter when the iterating function reports the end
IterNextNoSticky(it) ==
  IF IsNilFunc(it.iter) THEN [it |-> it, ret |-> FALSE, invoked |-> 0]
  ELSE IF it.nextCalled THEN [it |-> it, ret |-> TRUE, invoked |-> 0]
  ELSE IF Len(it.buffer) > 0
       THEN [it |-> [it EXCEPT !.nextCalled = TRUE,
                               !.value = Last(it.buffer),
                               !.buffer = Front(it.buffer)],
             ret |-> TRUE, invoked |-> 0]
  ELSE LET Invoked(r) ==
             IF r.ok
             THEN [it |-> [it EXCEPT !.iter = r.p, !.nextCalled = TRUE, !.value = r.val],
                   ret |-> TRUE, invoked |-> 1]
             ELSE [it |-> it, ret |-> FALSE, invoked |-> 1]
       IN Invoked(Call(it.iter))

\* Iter.Next that takes the oldest pushed-back value instead of the newest
IterNextFifo(it) ==
  IF IsNilFunc(it.iter) THEN [it |-> it, ret |-> FALSE, invoked |-> 0]
  ELSE IF it.nextCalled THEN [it |-> it, ret |-> TRUE, invoked |-> 0]
  ELSE IF Len(it.buffer) > 0
       THEN [it |-> [it EXCEPT !.nextCalled = TRUE,
                               !.value = Head(it.buffer),
                               !.buffer = Tail(it.buffer)],
             ret |-> TRUE, invoked |-> 0]
  ELSE LET Invoked(r) ==
             IF r.ok
             THEN [it |-> [it EXCEPT !.iter = r.p, !.nextCalled = TRUE, !.value = r.val],
                   ret |-> TRUE, invoked |-> 1]
             ELSE [it |-> [it EXCEPT !.iter = NilFunc], ret |-> FALSE, invoked |-> 1]
       IN Invoked(Call(it.iter))

\* Iter.Next that consults the iterating function before the buffer
IterNextProducerFirst(it) ==
  IF IsNilFunc(it.iter) THEN [it |-> it, ret |-> FALSE, invoked |-> 0]
  ELSE IF it.nextCalled THEN [it |-> it, ret |-> TRUE, invoked |-> 0]
  ELSE LET Invoked(r) ==
             IF r.ok
             THEN [it |-> [it EXCEPT !.iter = r.p, !.nextCalled = TRUE, !.value = r.val],
                   ret |-> TRUE, invoked |-> 1]
             ELSE IF Len(it.buffer) > 0
                  THEN [it |-> [it EXCEPT !.iter = r.p, !.nextCalled = TRUE,
                                          !.value = Last(it.buffer),
                                          !.buffer = Front(it.buffer)],
                        ret |-> TRUE, invoked |-> 1]
             ELSE [it |-> [it EXCEPT !.iter = NilFunc], ret |-> FALSE, invoked |-> 1]
       IN Invoked(Call(it.iter))

\* Iter.Next; "invoked" counts the calls made to the iterating function
IterNext(it) ==
  IF IsNilFunc(it.iter) THEN [it |-> it, ret |-> FALSE, invoked |-> 0]
  ELSE IF it.nextCalled THEN [it |-> it, ret |-> TRUE, invoked |-> 0]
  ELSE IF Len(it.buffer) > 0
       THEN [it |-> [it EXCEPT !.nextCalled = TRUE,
                               !.value = Last(it.buffer),
                               !.buffer = Front(it.buffer)],
             ret |-> TRUE, invoked |-> 0]
  ELSE LET Invoked(r) ==
             IF r.ok
             THEN [it |-> [it EXCEPT !.iter = r.p, !.nextCalled = TRUE, !.value = r.val],
                   ret |-> TRUE, invoked |-> 1]
             ELSE [it |-> [it EXCEPT !.iter = NilFunc], ret |-> FALSE, invoked |-> 1]
       IN Invoked(Call(it.iter))

\* Iter.Value without the nextCalled check
IterValueNoCheck(it) ==
  IF IsNilFunc(it.iter) THEN [it |-> it, ret |-> Nil, panic |-> ErrValueExhaustedIter]
  ELSE [it |-> [it EXCEPT !.nextCalled = FALSE], ret |-> it.value, panic |-> NoPanic]

\* Iter.Value with its two checks in the other order
IterValueSwapped(it) ==
  IF ~it.nextCalled THEN [it |-> it, ret |-> Nil, panic |-> ErrValueNextFirst]
  ELSE IF IsNilFunc(it.iter) THEN [it |-> it, ret |-> Nil, panic |-> ErrValueExhaustedIter]
  ELSE [it |-> [it EXCEPT !.nextCalled = FALSE], ret |-> it.value, panic |-> NoPanic]

\* Iter.Value
IterValue(it) ==
  IF IsNilFunc(it.iter) THEN [it |-> it, ret |-> Nil, panic |-> ErrValueExhaustedIter]
  ELSE IF ~it.nextCalled THEN [it |-> it, ret |-> Nil, panic |-> ErrValueNextFirst]
  ELSE [it |-> [it EXCEPT !.nextCalled = FALSE], ret |-> it.value, panic |-> NoPanic]

\* Iter.ByteValue: byte(reflect.ValueOf(it.Value()).Convert(byte).Uint())
IterByteValue(it) ==
  LET Converted(v) ==
        IF v.panic # NoPanic THEN [it |-> v.it, ret |-> 0, panic |-> v.panic]
        ELSE IF v.ret.kind # "int" THEN [it |-> v.it, ret |-> 0, panic |-> ErrNotConvertible]
        ELSE [it |-> v.it, ret |-> v.ret.n % 256, panic |-> NoPanic]
  IN Converted(IterValue(it))

\* Iter.Unread without the exhaustion check
IterUnreadNoCheck(it, val) ==
  [it |-> [it EXCEPT !.buffer = Append(it.buffer, val), !.nextCalled = FALSE],
   panic |-> NoPanic]

\* Iter.Unread that pushes the value before it tests for exhaustion
IterUnreadPushFirst(it, val) ==
  [it |-> [it EXCEPT !.buffer = Append(it.buffer, val), !.nextCalled = FALSE],
   panic |-> IF IsNilFunc(it.iter) THEN ErrUnreadExhaustedIter ELSE NoPanic]

\* Iter.Unread that leaves the next-called flag as it was
IterUnreadKeepFlag(it, val) ==
  IF IsNilFunc(it.iter) THEN [it |-> it, panic |-> ErrUnreadExhaustedIter]
  ELSE [it |-> [it EXCEPT !.buffer = Append(it.buffer, val)], panic |-> NoPanic]

\* Iter.Unread
IterUnread(it, val) ==
  IF IsNilFunc(it.iter) THEN [it |-> it, panic |-> ErrUnreadExhaustedIter]
  ELSE [it |-> [it EXCEPT !.buffer = Append(it.buffer, val), !.nextCalled = FALSE],
        panic |-> NoPanic]

\* the loop of Iter.ToSlice: for it.Next() { slice = append(slice, it.Value()) }
IterToSliceLoop(it, slice) ==
  LET Body(v) == IterToSliceLoop(v.it, Append(slice, v.ret))
      Cond(n) == IF ~n.ret THEN [it |-> n.it, slice |-> slice] ELSE Body(IterValue(n.it))
  IN Cond(IterNext(it))

\* Iter.ToSlice
IterToSlice(it) == IterToSliceLoop(it, <<>>)

\* the loop of Iter.SplitIntoRows
RECURSIVE SplitIntoRowsLoop(_, _, _, _, _)
SplitIntoRowsLoop(it, cols, split, row, idx) ==
  LET Body(v) ==
        IF idx + 1 = cols
        THEN SplitIntoRowsLoop(v.it, cols, Append(split, Append(row, v.ret)), <<>>, 0)
        ELSE SplitIntoRowsLoop(v.it, cols, split, Append(row, v.ret), idx + 1)
      Cond(n) ==
        IF ~n.ret
        THEN [it |-> n.it, split |-> IF Len(row) > 0 THEN Append(split, row) ELSE split]
        ELSE Body(IterValue(n.it))
  IN Cond(IterNext(it))

\* Iter.SplitIntoRows without the final append of a partly filled row
SplitIntoRowsNoPartial(it, cols) ==
  IF cols = 0 THEN [it |-> it, split |-> <<>>, panic |-> ErrColsGreaterThanZero]
  ELSE LET Full(row) == Len(row) = cols
           Done(r) == [it |-> r.it, split |-> SelectSeq(r.split, Full), panic |-> NoPanic]
       IN Done(SplitIntoRowsLoop(it, cols, <<>>, <<>>, 0))

\* Iter.SplitIntoRows that checks cols after reading the values
SplitIntoRowsLateCheck(it, cols) ==
  IF cols = 0
  THEN [it |-> IterToSlice(it).it, split |-> <<>>, panic |-> ErrColsGreaterThanZero]
  ELSE LET Done(r) == [it |-> r.it, split |-> r.split, panic |-> NoPanic]
       IN Done(SplitIntoRowsLoop(it, cols, <<>>, <<>>, 0))

\* Iter.SplitIntoRows
SplitIntoRows(it, cols) ==
  IF cols = 0 THEN [it |-> it, split |-> <<>>, panic |-> ErrColsGreaterThanZero]
  ELSE LET Done(r) == [it |-> r.it, split |-> r.split, panic |-> NoPanic]
       IN Done(SplitIntoRowsLoop(it, cols, <<>>, <<>>, 0))

\* the loop of Iter.SplitIntoColumns without the extra item from the remainder
RECURSIVE SplitIntoColumnsLoopNoExtra(_, _, _, _, _, _, _)
SplitIntoColumnsLoopNoExtra(values, numRows, numItems, rmdr, i, start, split) ==
  IF i >= numRows THEN split
  ELSE SplitIntoColumnsLoopNoExtra(values, numRows, numItems, rmdr, i + 1, start + numItems,
                                   Append(split, SubSeq(values, start + 1, start + numItems)))

\* the loop of Iter.SplitIntoColumns: for i := 0; i < numRows; i++ { ... }
RECURSIVE SplitIntoColumnsLoop(_, _, _, _, _, _, _)
SplitIntoColumnsLoop(values, numRows, numItems, rmdr, i, start, split) ==
  IF i >= numRows THEN split
  ELSE LET end == start + numItems + (IF rmdr > 0 THEN 1 ELSE 0)
           rmdr1 == IF rmdr > 0 THEN rmdr - 1 ELSE rmdr
       IN SplitIntoColumnsLoop(values, numRows, numItems, rmdr1, i + 1, end,
                               Append(split, SubSeq(values, start + 1, end)))

\* Iter.SplitIntoColumns without the case of fewer values than rows
SplitIntoColumnsNoFew(it, rows) ==
  IF rows = 0 THEN [it |-> it, split |-> <<>>, panic |-> ErrRowsGreaterThanZero]
  ELSE LET Distribute(d, numValues) ==
             [it |-> d.it,
              split |-> SplitIntoColumnsLoop(d.slice, rows, numValues \div rows,
                                             numValues % rows, 0, 0, <<>>),
              panic |-> NoPanic]
           Collected(d) == Distribute(d, Len(d.slice))
       IN Collected(IterToSlice(it))

\* Iter.SplitIntoColumns
SplitIntoColumns(it, rows) ==
  IF rows = 0 THEN [it |-> it, split |-> <<>>, panic |-> ErrRowsGreaterThanZero]
  ELSE LET Distribute(d, numValues) ==
             [it |-> d.it,
              split |-> IF numValues < rows
                        THEN SplitIntoColumnsLoop(d.slice, numValues, 1, 0, 0, 0, <<>>)
                        ELSE SplitIntoColumnsLoop(d.slice, rows, numValues \div rows,
                                                  numValues % rows, 0, 0, <<>>),
              panic |-> NoPanic]
           Collected(d) == Distribute(d, Len(d.slice))
       IN Collected(IterToSlice(it))

\* a Go slice as an interface{} value (reflect.Kind Slice)
SliceV(s) == [kind |-> "slice", n |-> 0, elems |-> s]

\* the recursive closure f of FlattenArraySlice, with its loop index
RECURSIVE FlattenF(_, _, _)
FlattenF(currentArraySlice, i, result) ==
  IF i > Len(currentArraySlice) THEN result
  ELSE LET val == currentArraySlice[i]
       IN IF val.kind = "array" \/ val.kind = "slice"
          THEN FlattenF(currentArraySlice, i + 1, FlattenF(val.elems, 1, result))
          ELSE FlattenF(currentArraySlice, i + 1, Append(result, val))

\* FlattenArraySlice, for an argument that is an array or slice
FlattenArraySlice(value) == FlattenF(value.elems, 1, <<>>)

----------------------------------------------------------------------------
(* Caller-supplied functions (predicates, mappers, comparators).  They are *)
(* inputs of the pipeline: a few total functions over the element values.  *)

Key(v) == IF v.kind = "int" THEN v.n ELSE IF Len(v.elems) > 0 THEN v.elems[1].n ELSE 0

\* func(element interface{}) bool
RECURSIVE ApplyPred(_, _)
ApplyPred(f, v) ==
  CASE f.kind = "lt2" -> v.kind = "int" /\ v.n < 2
    [] f.kind = "le7" -> v.kind = "int" /\ v.n <= 7
    [] f.kind = "not" -> ~ApplyPred(f.f, v)

\* func(element interface{}) interface{}
ApplyMap(f, v) ==
  CASE f.kind = "inc" -> IF v.kind = "int" THEN IntV(v.n + 1) ELSE v
    [] f.kind = "double" -> IF v.kind = "int" THEN IntV(v.n * 2) ELSE v
    [] f.kind = "minus3" -> IF v.kind = "int" THEN IntV(v.n - 3) ELSE v
    [] f.kind = "pair" -> IF v.kind = "int" THEN ArrV(<<v, v>>) ELSE v

\* func(element1, element2 interface{}) bool
RECURSIVE ApplyLess(_, _, _)
ApplyLess(less, a, b) ==
  CASE less.kind = "keyLess" -> Key(a) < Key(b)
    [] less.kind = "not" -> ~ApplyLess(less.f, a, b)

\* func(*iter.Iter) (interface{}, bool), the functions generated for SetReduce.
\* "pairSum" adds the keys of the next two elements, or returns the one that is
\* left, with the flag true, and returns (nil, false) when there is no element.
\* "pairDone" does the same but says with the flag whether more elements can be
\* added to the reduction: false when it has added two, true when it has one.
\* "collect" keeps an array among the variables its generator declares: it
\* returns (nil, false) when there is no element, and otherwise pushes the element
\* back, appends the keys of the elements up to the first one whose key is 2 or
\* more (the closing element, which it consumes) and returns (array, true).
\* The result holds the function's variables after the call as f.
ApplyReduce(f, it) ==
  LET Two(v1, v2) ==
        [it |-> v2.it, val |-> IntV(Key(v1.ret) + Key(v2.ret)), ok |-> f.kind = "pairSum",
         f |-> f]
      Second(v1, n2) ==
        IF n2.ret THEN Two(v1, IterValue(n2.it))
        ELSE [it |-> n2.it, val |-> IntV(Key(v1.ret)), ok |-> TRUE, f |-> f]
      First(v1) == Second(v1, IterNext(v1.it))
      Cond(n1) ==
        IF n1.ret THEN First(IterValue(n1.it))
        ELSE [it |-> n1.it, val |-> Nil, ok |-> FALSE, f |-> f]
      Collected(i, array) ==
        [it |-> i, val |-> ArrV(array), ok |-> TRUE, f |-> [f EXCEPT !.array = array]]
      RECURSIVE Collect(_, _)
      Collect(i, array) ==
        LET Body(v) == IF Key(v.ret) >= 2 THEN Collected(v.it, array)
                       ELSE Collect(v.it, Append(array, IntV(Key(v.ret))))
            Loop(n) == IF n.ret THEN Body(IterValue(n.it)) ELSE Collected(n.it, array)
        IN Loop(IterNext(i))
      Pushed(v) == Collect(IterUnread(v.it, v.ret).it, f.array)
      Test(n) ==
        IF n.ret THEN Pushed(IterValue(n.it))
        ELSE [it |-> n.it, val |-> Nil, ok |-> FALSE, f |-> f]
  IN IF f.kind = "collect" THEN Test(IterNext(it)) ELSE Cond(IterNext(it))

\* generator(): the function, with the variables declared by the generator at
\* their initial values
ReduceGenerate(generator) == [kind |-> generator.kind, array |-> <<>>]

Preds == {[kind |-> "lt2"]}
Reducers == {[kind |-> "pairSum"], [kind |-> "pairDone"], [kind |-> "collect"]}
Maps == {[kind |-> "inc"], [kind |-> "pair"]}
KeyLess == [kind |-> "keyLess"]

----------------------------------------------------------------------------
(* package stream: the iterating functions built by the Stream and the     *)
(* Finisher stages.  Each is the closure handed to iter.NewIter, modelled  *)
(* by its captured variables; "it" is the upstream iterator.               *)

\* Stream.Filter closure: for it.Next() { if val := it.Value(); f(val) { return val, true } }
RECURSIVE StreamFilterCall(_)
StreamFilterCall(p) ==
  LET Body(v) ==
        IF ApplyPred(p.f, v.ret)
        THEN [p |-> [p EXCEPT !.it = v.it], val |-> v.ret, ok |-> TRUE]
        ELSE StreamFilterCall([p EXCEPT !.it = v.it])
      Cond(n) ==
        IF ~n.ret THEN [p |-> [p EXCEPT !.it = n.it], val |-> Nil, ok |-> FALSE]
        ELSE Body(IterValue(n.it))
  IN Cond(IterNext(p.it))

\* Stream.Map closure
StreamMapCall(p) ==
  LET Body(v) == [p |-> [p EXCEPT !.it = v.it], val |-> ApplyMap(p.f, v.ret), ok |-> TRUE]
      Cond(n) ==
        IF n.ret THEN Body(IterValue(n.it))
        ELSE [p |-> [p EXCEPT !.it = n.it], val |-> Nil, ok |-> FALSE]
  IN Cond(IterNext(p.it))

\* Stream.Peek closure that returns the value without calling f
StreamPeekCallNoCallback(p) ==
  LET Body(v) == [p |-> [p EXCEPT !.it = v.it], val |-> v.ret, ok |-> TRUE]
      Cond(n) ==
        IF n.ret THEN Body(IterValue(n.it))
        ELSE [p |-> [p EXCEPT !.it = n.it], val |-> Nil, ok |-> FALSE]
  IN Cond(IterNext(p.it))

\* Stream.Peek closure; seen holds the values this closure has called f with
StreamPeekCall(p) ==
  LET Body(v) == [p |-> [p EXCEPT !.it = v.it, !.seen = Append(p.seen, v.ret)],
                  val |-> v.ret, ok |-> TRUE]
      Cond(n) ==
        IF n.ret THEN Body(IterValue(n.it))
        ELSE [p |-> [p EXCEPT !.it = n.it], val |-> Nil, ok |-> FALSE]
  IN Cond(IterNext(p.it))

\* the predicates of Distinct and Duplicate without alreadyRead[element] = true
FinPredCallNoRecord(f, element) ==
  CASE f.kind = "Distinct" ->
         IF element \notin f.alreadyRead
         THEN [f |-> f, ret |-> TRUE]
         ELSE [f |-> f, ret |-> FALSE]
    [] f.kind = "Duplicate" ->
         IF element \notin f.alreadyRead
         THEN [f |-> f, ret |-> FALSE]
         ELSE [f |-> f, ret |-> TRUE]

\* the predicates generated by Finisher.Distinct and Finisher.Duplicate;
\* alreadyRead is the map allocated by the generator
FinPredCall(f, element) ==
  CASE f.kind = "Distinct" ->
         IF element \notin f.alreadyRead
         THEN [f |-> [f EXCEPT !.alreadyRead = f.alreadyRead \cup {element}], ret |-> TRUE]
         ELSE [f |-> f, ret |-> FALSE]
    [] f.kind = "Duplicate" ->
         IF element \notin f.alreadyRead
         THEN [f |-> [f EXCEPT !.alreadyRead = f.alreadyRead \cup {element}], ret |-> FALSE]
         ELSE [f |-> f, ret |-> TRUE]

\* Finisher.Filter closure
RECURSIVE FinFilterCall(_)
FinFilterCall(p) ==
  LET Test(v, r) ==
        IF r.ret
        THEN [p |-> [p EXCEPT !.it = v.it, !.f = r.f], val |-> v.ret, ok |-> TRUE]
        ELSE FinFilterCall([p EXCEPT !.it = v.it, !.f = r.f])
      Body(v) == Test(v, FinPredCall(p.f, v.ret))
      Cond(n) ==
        IF ~n.ret THEN [p |-> [p EXCEPT !.it = n.it], val |-> Nil, ok |-> FALSE]
        ELSE Body(IterValue(n.it))
  IN Cond(IterNext(p.it))

\* Finisher.Limit closure that calls it.Next() before it compares elementsRead with n
LimitCallNextFirst(p) ==
  LET Body(v) == [p |-> [p EXCEPT !.it = v.it, !.elementsRead = p.elementsRead + 1],
                  val |-> v.ret, ok |-> TRUE]
      Cond(n) ==
        IF ~n.ret \/ p.elementsRead = p.n
        THEN [p |-> [p EXCEPT !.it = n.it], val |-> Nil, ok |-> FALSE]
        ELSE Body(IterValue(n.it))
  IN Cond(IterNext(p.it))

\* Finisher.Limit closure
LimitCall(p) ==
  IF p.elementsRead = p.n THEN [p |-> p, val |-> Nil, ok |-> FALSE]
  ELSE LET Body(v) == [p |-> [p EXCEPT !.it = v.it, !.elementsRead = p.elementsRead + 1],
                        val |-> v.ret, ok |-> TRUE]
           Cond(n) ==
             IF ~n.ret THEN [p |-> [p EXCEPT !.it = n.it], val |-> Nil, ok |-> FALSE]
             ELSE Body(IterValue(n.it))
       IN Cond(IterNext(p.it))

\* the iterating function made by SetReduce, with the generator invoked for the
\* first reduction only and the function it returned used for every reduction
SetReduceCallOneFunction(p) ==
  LET Returned(r) ==
        [p |-> [p EXCEPT !.it = r.it, !.invoked = p.invoked + 1, !.generator = r.f],
         val |-> r.val, ok |-> r.ok]
  IN Returned(ApplyReduce(IF p.invoked = 0 THEN ReduceGenerate(p.generator)
                          ELSE p.generator, p.it))

\* Finisher.SetReduce closure: return generator()(it); invoked counts the calls
\* made to the generated function
SetReduceCall(p) ==
  LET Returned(r) ==
        [p |-> [p EXCEPT !.it = r.it, !.invoked = p.invoked + 1], val |-> r.val, ok |-> r.ok]
  IN Returned(ApplyReduce(ReduceGenerate(p.generator), p.it))

\* Finisher.Skip closure, the loop for i := 1; i <= n; i++
RECURSIVE SkipLoop(_, _, _)
SkipLoop(it, i, n) ==
  IF i > n THEN [it |-> it, ok |-> TRUE]
  ELSE LET Cond(nx) ==
             IF nx.ret THEN SkipLoop(IterValue(nx.it).it, i + 1, n)
             ELSE [it |-> nx.it, ok |-> FALSE]
       IN Cond(IterNext(it))

\* Finisher.Skip closure that never sets skipped
SkipCallEveryPull(p) ==
  LET Body(p1, v) == [p |-> [p1 EXCEPT !.it = v.it], val |-> v.ret, ok |-> TRUE]
      Cond(p1, n) ==
        IF n.ret THEN Body(p1, IterValue(n.it))
        ELSE [p |-> [p1 EXCEPT !.it = n.it], val |-> Nil, ok |-> FALSE]
      Skipped(p1, ok) ==
        IF ~ok THEN [p |-> p1, val |-> Nil, ok |-> FALSE]
        ELSE Cond(p1, IterNext(p1.it))
      After(s) == Skipped([p EXCEPT !.it = s.it], s.ok)
  IN After(SkipLoop(p.it, 1, p.n))

\* Finisher.Skip closure
SkipCall(p) ==
  LET Body(p1, v) == [p |-> [p1 EXCEPT !.it = v.it], val |-> v.ret, ok |-> TRUE]
      Cond(p1, n) ==
        IF n.ret THEN Body(p1, IterValue(n.it))
        ELSE [p |-> [p1 EXCEPT !.it = n.it], val |-> Nil, ok |-> FALSE]
      Skipped(p1, ok) ==
        IF ~ok THEN [p |-> p1, val |-> Nil, ok |-> FALSE]
        ELSE Cond(p1, IterNext(p1.it))
      After(s) == Skipped([p EXCEPT !.skipped = TRUE, !.it = s.it], s.ok)
  IN After(IF ~p.skipped THEN SkipLoop(p.it, 1, p.n) ELSE [it |-> p.it, ok |-> TRUE])

\* sort.Slice on a slice of at most 12 elements is an insertion sort:
\* for i := a+1; i < b; i++ { for j := i; j > a && less(j, j-1); j-- { swap(j, j-1) } }
RECURSIVE InsertionInner(_, _, _)
InsertionInner(sorted, j, less) ==
  IF j > 1 /\ ApplyLess(less, sorted[j], sorted[j - 1])
  THEN InsertionInner([sorted EXCEPT ![j] = sorted[j - 1], ![j - 1] = sorted[j]], j - 1, less)
  ELSE sorted

RECURSIVE InsertionOuter(_, _, _)
InsertionOuter(sorted, i, less) ==
  IF i > Len(sorted) THEN sorted
  ELSE InsertionOuter(InsertionInner(sorted, i, less), i + 1, less)

\* sort.Slice that leaves the slice as it is
SortSliceAsIs(sorted, less) == sorted

SortSlice(sorted, less) == InsertionOuter(sorted, 2, less)

\* Finisher.Sort closure
SortCall(p) ==
  LET Sorted(d) == [p EXCEPT !.it = d.it,
                             !.sortedIter = OfElements(SortSlice(d.slice, p.less)),
                             !.done = TRUE]
      Body(p1, v) == [p |-> [p1 EXCEPT !.sortedIter = v.it], val |-> v.ret, ok |-> TRUE]
      Cond(p1, n) ==
        IF n.ret THEN Body(p1, IterValue(n.it))
        ELSE [p |-> [p1 EXCEPT !.sortedIter = n.it], val |-> Nil, ok |-> FALSE]
      Emit(p1) == Cond(p1, IterNext(p1.sortedIter))
  IN Emit(IF ~p.done THEN Sorted(IterToSlice(p.it)) ELSE p)

\* Iterate: the closure over (nextValue, f); pulls counts its invocations
Iterate(seed, f) == NewIter([kind |-> "Iterate", nextValue |-> seed, f |-> f, pulls |-> 0])

\* one invocation of the closure returned by Iterate
IterateCall(p) ==
  [p |-> [p EXCEPT !.nextValue = ApplyMap(p.f, p.nextValue), !.pulls = p.pulls + 1],
   val |-> p.nextValue, ok |-> TRUE]

\* Concat: the iterating function's variables are iters and i; its variable iter is
\* nil or iters[i], and the Iters it points to are kept in iters
Concat(iters) == NewIter([kind |-> "Concat", iters |-> iters, i |-> 0])

\* one invocation of the closure returned by Concat that gives up at the first
\* iterator found exhausted
ConcatCallStopAtExhausted(p) ==
  IF p.i = Len(p.iters) THEN [p |-> p, val |-> Nil, ok |-> FALSE]
  ELSE LET Got(v) == [p |-> [p EXCEPT !.iters[p.i + 1] = v.it], val |-> v.ret, ok |-> TRUE]
           Cond(n) == IF n.ret THEN Got(IterValue(n.it))
                      ELSE [p |-> [p EXCEPT !.iters[p.i + 1] = n.it, !.i = Len(p.iters)],
                            val |-> Nil, ok |-> FALSE]
       IN Cond(IterNext(p.iters[p.i + 1]))

\* one invocation of the closure returned by Concat
ConcatCall(p) ==
  LET RECURSIVE Loop(_)
      Loop(q) ==
        IF q.i = Len(q.iters) THEN [p |-> q, val |-> Nil, ok |-> FALSE]
        ELSE LET Got(v) ==
                   [p |-> [q EXCEPT !.iters[q.i + 1] = v.it], val |-> v.ret, ok |-> TRUE]
                 Cond(n) ==
                   IF n.ret THEN Got(IterValue(n.it))
                   ELSE Loop([q EXCEPT !.iters[q.i + 1] = n.it, !.i = q.i + 1])
             IN Cond(IterNext(q.iters[q.i + 1]))
  IN Loop(p)

\* a string value, as the sequence of its runes
StrV(runes) == [kind |-> "string", n |-> 0, elems |-> runes]

\* ReaderToLinesIterFunc: runesIter is modelled by the runes still to be read
ReaderToLinesIterFunc(src) == [kind |-> "ReaderToLines", runes |-> src, lastCR |-> FALSE]

\* one invocation of the closure returned by ReaderToLinesIterFunc
ReaderToLinesCall(p) ==
  LET RECURSIVE Loop(_, _)
      Loop(q, str) ==
        IF q.runes = <<>>
        THEN IF Len(str) > 0 THEN [p |-> q, val |-> StrV(str), ok |-> TRUE]
             ELSE [p |-> q, val |-> StrV(<<>>), ok |-> FALSE]
        ELSE LET codePoint == Head(q.runes)
                 rest == [q EXCEPT !.runes = Tail(q.runes)]
             IN IF codePoint = "CR"
                THEN [p |-> [rest EXCEPT !.lastCR = TRUE], val |-> StrV(str), ok |-> TRUE]
                ELSE IF codePoint = "LF"
                THEN IF q.lastCR THEN Loop([rest EXCEPT !.lastCR = FALSE], str)
                     ELSE [p |-> rest, val |-> StrV(str), ok |-> TRUE]
                ELSE Loop(rest, Append(str, codePoint))
  IN Loop(p, <<>>)

\* one invocation of an iterating function: it.iter()
Call(p) ==
  CASE p.kind = "ArraySlice" -> ArraySliceCall(p)
    [] p.kind = "Iterate" -> IterateCall(p)
    [] p.kind = "StreamFilter" -> StreamFilterCall(p)
    [] p.kind = "StreamMap" -> StreamMapCall(p)
    [] p.kind = "StreamPeek" -> StreamPeekCall(p)
    [] p.kind = "FinFilter" -> FinFilterCall(p)
    [] p.kind = "Limit" -> LimitCall(p)
    [] p.kind = "Skip" -> SkipCall(p)
    [] p.kind = "Sort" -> SortCall(p)
    [] p.kind = "SetReduce" -> SetReduceCall(p)
    [] p.kind = "Concat" -> ConcatCall(p)
    [] p.kind = "ReaderToLines" -> ReaderToLinesCall(p)

----------------------------------------------------------------------------
(* package stream: transforms (functions from Iter to Iter), generators    *)
(* (functions returning a transform), Stream and Finisher.                 *)

NilTransform == [kind |-> "nil"]
NoConfig == [kind |-> "none"]
NilGenerator == [kind |-> "nil"]

\* composeTransforms whose closure is f1(f2(it))
composeTransformsRightToLeft(f1, f2) ==
  IF f1.kind = "nil" THEN f2 ELSE [kind |-> "composition", f1 |-> f2, f2 |-> f1]

\* composeTransforms: f2 if f1 is nil, else the closure over (f1, f2)
composeTransforms(f1, f2) ==
  IF f1.kind = "nil" THEN f2 ELSE [kind |-> "composition", f1 |-> f1, f2 |-> f2]

\* composeGenerators: f2 if f1 is nil, else the closure over (f1, f2)
composeGenerators(f1, f2) ==
  IF f1.kind = "nil" THEN f2 ELSE [kind |-> "composition", f1 |-> f1, f2 |-> f2]

\* predicate generators that share one alreadyRead map: an invocation continues
\* with the map of the filter built by the previous terminal call
PredGenerateShared(g) ==
  LET RECURSIVE AlreadyReadOf(_)
      AlreadyReadOf(it) ==
        IF IsNilFunc(it.iter) \/ it.iter.kind = "ArraySlice" THEN {}
        ELSE IF it.iter.kind = "FinFilter" THEN it.iter.f.alreadyRead
        ELSE AlreadyReadOf(it.iter.it)
  IN [kind |-> g.kind, alreadyRead |-> AlreadyReadOf(current)]

\* predicate generators whose alreadyRead map is one per Finisher: an invocation
\* sees what the filters of the goroutines sharing the Finisher have read
PredGenerateOneMap(g) ==
  LET RECURSIVE AlreadyReadOf(_)
      AlreadyReadOf(it) ==
        IF IsNilFunc(it.iter) \/ it.iter.kind = "ArraySlice" THEN {}
        ELSE IF it.iter.kind = "FinFilter" THEN it.iter.f.alreadyRead
        ELSE AlreadyReadOf(it.iter.it)
  IN [kind |-> g.kind,
      alreadyRead |-> UNION {AlreadyReadOf(threads[t].current) : t \in 1..Len(threads)}]

\* the predicate generators passed to Finisher.Filter by Distinct and Duplicate:
\* each invocation allocates alreadyRead
PredGenerate(g) ==
  CASE g.kind = "Distinct" -> [kind |-> "Distinct", alreadyRead |-> {}]
    [] g.kind = "Duplicate" -> [kind |-> "Duplicate", alreadyRead |-> {}]

\* invoking a generator: g()
Generate(g) ==
  CASE g.kind = "composition" -> [kind |-> "generated", f1 |-> g.f1, f2 |-> g.f2]
    [] g.kind = "Filter" -> [kind |-> "FinFilter", f |-> PredGenerate(g.g)]
    [] g.kind = "Limit" -> [kind |-> "Limit", n |-> g.n, elementsRead |-> 0]
    [] g.kind = "Skip" -> [kind |-> "Skip", n |-> g.n, skipped |-> FALSE]
    [] g.kind = "Sort" -> [kind |-> "Sort", less |-> g.less, done |-> FALSE]
    [] g.kind = "SetReduce" -> [kind |-> "SetReduce", generator |-> g.generator]

\* applying a transform to an iterator: t(it)
ApplyTransform(t, it) ==
  CASE t.kind = "composition" -> ApplyTransform(t.f2, ApplyTransform(t.f1, it))
    [] t.kind = "generated" ->
         ApplyTransform(Generate(t.f2), ApplyTransform(Generate(t.f1), it))
    [] t.kind = "StreamFilter" -> NewIter([kind |-> "StreamFilter", f |-> t.f, it |-> it])
    [] t.kind = "StreamMap" -> NewIter([kind |-> "StreamMap", f |-> t.f, it |-> it])
    [] t.kind = "StreamPeek" ->
         NewIter([kind |-> "StreamPeek", f |-> t.f, seen |-> <<>>, it |-> it])
    [] t.kind = "FinisherIter" -> FinisherIter(t.fin, it, t.pc)
    [] t.kind = "FinFilter" -> NewIter([kind |-> "FinFilter", f |-> t.f, it |-> it])
    [] t.kind = "Limit" ->
         NewIter([kind |-> "Limit", n |-> t.n, elementsRead |-> t.elementsRead, it |-> it])
    [] t.kind = "Skip" ->
         NewIter([kind |-> "Skip", n |-> t.n, skipped |-> t.skipped, it |-> it])
    [] t.kind = "Sort" ->
         NewIter([kind |-> "Sort", less |-> t.less, done |-> t.done,
                  sortedIter |-> NewIter(NilFunc), it |-> it])
    [] t.kind = "SetReduce" ->
         NewIter([kind |-> "SetReduce", generator |-> t.generator, invoked |-> 0, it |-> it])

\* Stream.Iter
StreamIter(s, source) ==
  IF s.transform.kind # "nil" THEN ApplyTransform(s.transform, source) ELSE source

\* New
New == [transform |-> NilTransform]

\* Stream.Transform that leaves the receiver as it was
StreamTransformDetached(s, t) == s

\* Stream.Transform
StreamTransform(s, t) == [s EXCEPT !.transform = composeTransforms(s.transform, t)]

\* Stream.Filter
StreamFilter(s, f) == StreamTransform(s, [kind |-> "StreamFilter", f |-> f])

\* Stream.FilterNot
StreamFilterNot(s, f) == StreamFilter(s, [kind |-> "not", f |-> f])

\* Stream.Map
StreamMap(s, f) == StreamTransform(s, [kind |-> "StreamMap", f |-> f])

\* Stream.Peek
StreamPeek(s, f) == StreamTransform(s, [kind |-> "StreamPeek", f |-> f])

\* Stream.AndThen
AndThen(s) == [stream |-> s, generator |-> NilGenerator]

\* Finisher.Transform
FinisherTransform(fin, g) == [fin EXCEPT !.generator = composeGenerators(fin.generator, g)]

\* Finisher.Filter
FinisherFilter(fin, g) == FinisherTransform(fin, [kind |-> "Filter", g |-> g])

\* Finisher.Distinct
Distinct(fin) == FinisherFilter(fin, [kind |-> "Distinct"])

\* Finisher.Duplicate with the predicate of Distinct
DuplicateFirstOccurrences(fin) == FinisherFilter(fin, [kind |-> "Distinct"])

\* Finisher.Duplicate
Duplicate(fin) == FinisherFilter(fin, [kind |-> "Duplicate"])

\* Finisher.Limit
Limit(fin, n) == FinisherTransform(fin, [kind |-> "Limit", n |-> n])

\* Finisher.SetReduce
SetReduce(fin, generator) ==
  FinisherTransform(fin, [kind |-> "SetReduce", generator |-> generator])

\* Finisher.Skip
Skip(fin, n) == FinisherTransform(fin, [kind |-> "Skip", n |-> n])

\* Finisher.Sort
Sort(fin, less) == FinisherTransform(fin, [kind |-> "Sort", less |-> less])

\* Finisher.ReverseSort
ReverseSort(fin, less) == Sort(fin, [kind |-> "not", f |-> less])

\* ParallelFlags
NumberOfGoroutines == 0
NumberOfItemsPerGoroutine == 1

DefaultNumberOfParallelItems == 50

\* ParallelConfig
ParallelConfig(NumberOfItems, Flags) ==
  [kind |-> "ParallelConfig", NumberOfItems |-> NumberOfItems, Flags |-> Flags]

\* doParallel: n, the number of rows or columns asked for
ParallelN(numItems) == IF numItems > 0 THEN numItems ELSE DefaultNumberOfParallelItems

\* doParallel: splitData, from SplitIntoColumns or SplitIntoRows by the flag
ParallelSplit(source, n, flag) ==
  IF flag = NumberOfGoroutines
  THEN SplitIntoColumns(source, n).split
  ELSE SplitIntoRows(source, n).split

\* doParallel: the body of one goroutine, transform(iter.OfElements(row)).ToSlice()
ParallelRow(transform, row) == IterToSlice(ApplyTransform(transform, OfElements(row))).slice

\* doParallel: flatData = iter.FlattenArraySlice(splitData)
ParallelFlatten(splitData) ==
  FlattenArraySlice(SliceV([i \in 1..Len(splitData) |-> SliceV(splitData[i])]))

\* doParallel: the generator, if any, applied serially to the flat data
ParallelFinish(generator, flatData) ==
  IF generator.kind = "nil" THEN flatData
  ELSE IterToSlice(ApplyTransform(Generate(generator), Of(flatData))).slice

\* doParallel, with the goroutines run to completion: each writes its own slot
doParallel(source, transform, generator, numItems, flag) ==
  LET Rows(splitData) ==
        ParallelFlatten([i \in 1..Len(splitData) |-> ParallelRow(transform, splitData[i])])
      flatData ==
        IF transform.kind = "nil" THEN IterToSlice(source).slice
        ELSE Rows(ParallelSplit(source, ParallelN(numItems), flag))
  IN ParallelFinish(generator, flatData)

\* Finisher.Iter that applies the generated transform before the Stream's transform
FinisherIterGenFirst(fin, source, pc) ==
  IF pc.kind # "none"
  THEN Of(doParallel(source, fin.stream.transform, fin.generator, pc.NumberOfItems, pc.Flags))
  ELSE LET Finish(it1) ==
             IF fin.stream.transform.kind # "nil"
             THEN ApplyTransform(fin.stream.transform, it1)
             ELSE it1
       IN Finish(IF fin.generator.kind # "nil"
                 THEN ApplyTransform(Generate(fin.generator), source)
                 ELSE source)

\* Finisher.Iter; pc is the optional ParallelConfig, NoConfig when not given
FinisherIter(fin, source, pc) ==
  IF pc.kind # "none"
  THEN Of(doParallel(source, fin.stream.transform, fin.generator, pc.NumberOfItems, pc.Flags))
  ELSE LET Finish(it1) ==
             IF fin.generator.kind # "nil"
             THEN ApplyTransform(Generate(fin.generator), it1)
             ELSE it1
       IN Finish(IF fin.stream.transform.kind # "nil"
                 THEN ApplyTransform(fin.stream.transform, source)
                 ELSE source)

\* Finisher.ToSlice
FinisherToSlice(fin, source, pc) == IterToSlice(FinisherIter(fin, source, pc)).slice

\* Finisher.AndThen: the Stream whose transform is fin.Iter(source, pc...)
FinisherAndThen(fin, pc) ==
  StreamTransform(New, [kind |-> "FinisherIter", fin |-> fin, pc |-> pc])

----------------------------------------------------------------------------
(* Initial values *)

\* the element values of the sources: ints and one array value
Values == Ints \cup {ArrV(<<IntV(1), IntV(2)>>)}

NoOp == [name |-> "none", ok |-> FALSE, val |-> Nil, panic |-> NoPanic, split |-> <<>>]

\* run: the values of the current run of consecutive Unread calls; after the run,
\* expect/served follow the Next/Value pairs that come right after it
MonIdle == [run |-> <<>>, phase |-> "idle", expect |-> "none", served |-> 0]

HistInit ==
  [calls |-> 0,               \* invocations of the iterating function
   exhaustedBy |-> "none",    \* the call in which Next first returned false
   nextRun |-> 0,             \* consecutive Next calls just made (counted up to 2)
   nextSinceValue |-> FALSE,  \* a Next returned true since the last Value call
   unreadUsed |-> FALSE,      \* Unread has been called
   cachedIdx |-> 0,           \* index in given of the value cached by Next, 0 if pushed back
   lastProdIdx |-> 0,         \* index in given of the last producer value returned by Value
   mon |-> MonIdle]

\* peeked: the calls made to the callback of Peek, in the order they happened
ParIdle ==
  [pc |-> "idle", i |-> 0, splitData |-> <<>>, workers |-> <<>>, flatData |-> <<>>,
   peeked |-> <<>>]
\* n: terminal calls made; prevOutput: what the previous call's iterator had given
\* when it was dropped; prevPartial: it was dropped before its end
CallsInit == [n |-> 0, prevPartial |-> FALSE, prevOutput |-> <<>>]
\* no goroutine has been started
ThreadsIdle == <<>>
\* no stage call has been recorded
BuiltNone == [stream |-> <<>>, fin |-> <<>>]

PipeIdle ==
  /\ finisher = AndThen(New)
  /\ input = <<>>
  /\ pconf = NoConfig
  /\ current = NewIter(NilFunc)
  /\ output = <<>>
  /\ finished = FALSE
  /\ par = ParIdle
  /\ calls = CallsInit
  /\ threads = ThreadsIdle
  /\ built = BuiltNone

----------------------------------------------------------------------------
(* The iterator under test: every call a caller can make, in any order *)

Init ==
  /\ given \in SeqsUpTo(Ints, MaxLen)
  /\ itr = Of(given)
  /\ op = NoOp
  /\ returned = <<>>
  /\ hist = HistInit
  /\ PipeIdle

\* the invocations of the iterating function made by a loop for it.Next() { it.Value() }
RECURSIVE DrainInvoked(_)
DrainInvoked(i) ==
  LET Cond(n) == IF ~n.ret THEN n.invoked ELSE n.invoked + DrainInvoked(IterValue(n.it).it)
  IN Cond(IterNext(i))

\* itr.Next()
CallNext ==
  \E n \in {IterNext(itr)} :
  LET cached == n.ret /\ ~itr.nextCalled
      m == hist.mon
  IN /\ itr' = n.it
     /\ op' = [NoOp EXCEPT !.name = "Next", !.ok = n.ret]
     /\ hist' = [hist EXCEPT
          !.calls = @ + n.invoked,
          !.exhaustedBy = IF @ = "none" /\ ~n.ret THEN "Next" ELSE @,
          !.nextRun = IF @ < 2 THEN @ + 1 ELSE @,
          !.nextSinceValue = @ \/ n.ret,
          !.cachedIdx = IF cached THEN (IF n.invoked > 0 THEN hist.calls + n.invoked ELSE 0)
                        ELSE @,
          !.mon = IF m.phase = "unreading"
                     \/ (m.phase = "pairs" /\ m.expect = "Next" /\ m.served < Len(m.run))
                  THEN [m EXCEPT !.phase = "pairs", !.expect = "Value"]
                  ELSE MonIdle]
     /\ UNCHANGED <<given, returned>>
     /\ UNCHANGED pipeVars

\* itr.Value()
CallValue ==
  \E v \in {IterValue(itr)} :
  LET m == hist.mon
  IN /\ v.panic = NoPanic => Len(returned) < MaxReturned
     /\ itr' = v.it
     /\ op' = [NoOp EXCEPT !.name = "Value", !.ok = (v.panic = NoPanic),
                           !.val = v.ret, !.panic = v.panic]
     /\ returned' = IF v.panic = NoPanic THEN Append(returned, v.ret) ELSE returned
     /\ hist' = [hist EXCEPT
          !.nextSinceValue = FALSE,
          !.nextRun = 0,
          !.lastProdIdx = IF v.panic = NoPanic /\ hist.cachedIdx > 0
                          THEN hist.cachedIdx ELSE @,
          !.mon = IF m.phase = "pairs" /\ m.expect = "Value"
                  THEN [m EXCEPT !.expect = "Next", !.served = @ + 1]
                  ELSE MonIdle]
     /\ UNCHANGED given
     /\ UNCHANGED pipeVars

\* itr.Unread(val)
CallUnread(val) ==
  \E u \in {IterUnread(itr, val)} :
  LET m == hist.mon
  IN /\ Len(itr.buffer) < MaxBuf
     /\ itr' = u.it
     /\ op' = [NoOp EXCEPT !.name = "Unread", !.ok = (u.panic = NoPanic),
                           !.val = val, !.panic = u.panic]
     /\ hist' = [hist EXCEPT
          !.unreadUsed = TRUE,
          !.nextRun = 0,
          !.mon = IF u.panic # NoPanic THEN MonIdle
                  ELSE IF m.phase = "unreading"
                       THEN [m EXCEPT !.run = Append(@, val)]
                       ELSE [MonIdle EXCEPT !.run = <<val>>, !.phase = "unreading"]]
     /\ UNCHANGED <<given, returned>>
     /\ UNCHANGED pipeVars

\* itr.ToSlice()
CallToSlice ==
  \E d \in {IterToSlice(itr)} :
     /\ itr' = d.it
     /\ op' = [NoOp EXCEPT !.name = "ToSlice", !.ok = TRUE, !.split = <<d.slice>>]
     /\ hist' = [hist EXCEPT !.calls = @ + DrainInvoked(itr),
                             !.exhaustedBy = IF @ = "none" THEN "ToSlice" ELSE @,
                             !.nextSinceValue = FALSE, !.nextRun = 0, !.mon = MonIdle]
     /\ UNCHANGED <<given, returned>>
     /\ UNCHANGED pipeVars

\* itr.SplitIntoRows(cols)
CallSplitIntoRows(cols) ==
  \E r \in {SplitIntoRows(itr, cols)} :
     /\ itr' = r.it
     /\ op' = [NoOp EXCEPT !.name = "SplitIntoRows", !.ok = (r.panic = NoPanic),
                           !.val = IntV(cols), !.panic = r.panic, !.split = r.split]
     /\ hist' = IF r.panic # NoPanic THEN [hist EXCEPT !.nextRun = 0, !.mon = MonIdle]
                ELSE [hist EXCEPT !.calls = @ + DrainInvoked(itr),
                                  !.exhaustedBy = IF @ = "none" THEN "SplitIntoRows" ELSE @,
                                  !.nextSinceValue = FALSE, !.nextRun = 0, !.mon = MonIdle]
     /\ UNCHANGED <<given, returned>>
     /\ UNCHANGED pipeVars

\* itr.SplitIntoColumns(rows)
CallSplitIntoColumns(rows) ==
  \E r \in {SplitIntoColumns(itr, rows)} :
     /\ itr' = r.it
     /\ op' = [NoOp EXCEPT !.name = "SplitIntoColumns", !.ok = (r.panic = NoPanic),
                           !.val = IntV(rows), !.panic = r.panic, !.split = r.split]
     /\ hist' = IF r.panic # NoPanic THEN [hist EXCEPT !.nextRun = 0, !.mon = MonIdle]
                ELSE [hist EXCEPT !.calls = @ + DrainInvoked(itr),
                                  !.exhaustedBy = IF @ = "none" THEN "SplitIntoColumns" ELSE @,
                                  !.nextSinceValue = FALSE, !.nextRun = 0, !.mon = MonIdle]
     /\ UNCHANGED <<given, returned>>
     /\ UNCHANGED pipeVars

\* Next has returned false, in a direct call or inside a draining call
NextFalse == hist.exhaustedBy # "none"

\* the sizes tried for SplitIntoRows and SplitIntoColumns
Sizes == 0..MaxLen

Next ==
  \/ CallNext
  \/ CallValue
  \/ \E val \in Ints : CallUnread(val)
  \/ CallToSlice
  \/ \E cols \in Sizes : CallSplitIntoRows(cols)
  \/ \E rows \in Sizes : CallSplitIntoColumns(rows)

Spec == Init /\ [][Next]_vars

----------------------------------------------------------------------------
(* Properties of the iterator protocol, checked under Spec *)

\* C1: when Unread is never called, the values returned by the successful Value
\* calls are a prefix of the producer sequence, in producer order: none skipped,
\* none returned twice.
C1_ValuesArePrefix ==
  ~hist.unreadUsed =>
     /\ Len(returned) <= Len(given)
     /\ returned = SubSeq(given, 1, Len(returned))

C1_Witness ==
  /\ ~hist.unreadUsed
  /\ op.name = "Value" /\ op.ok
  /\ Len(returned) = 2
  /\ returned[1] # returned[2]

\* C2: on a non-exhausted Iter, a Value call made when no Next has returned true
\* since the previous Value call (or since construction) panics with
\* ErrValueNextFirst and leaves the iterator (cached value, buffer, producer
\* position) as it was.
C2_ValueNeedsNext ==
  [][(op'.name = "Value" /\ ~IsNilFunc(itr.iter) /\ ~hist.nextSinceValue)
       => (op'.panic = ErrValueNextFirst /\ itr' = itr)]_vars

C2_Witness ==
  /\ op.name = "Value" /\ op.panic = ErrValueNextFirst
  /\ Len(returned) > 0
  /\ ~hist.unreadUsed
  /\ ~IsNilFunc(itr.iter)

\* C3: consecutive Next calls with no Value or Unread in between: the first
\* invokes the producer at most once and pops at most one pushed-back value, the
\* later ones return the same boolean and change nothing, and the Value call
\* that follows returns the value cached by the first.
C3_NextIdempotent ==
  [][/\ op'.name = "Next" =>
          /\ hist'.calls <= hist.calls + 1
          /\ Len(itr'.buffer) >= Len(itr.buffer) - 1
     /\ (op'.name = "Next" /\ hist.nextRun >= 1) =>
          /\ op'.ok = op.ok
          /\ itr' = itr
          /\ hist'.calls = hist.calls
     /\ (op'.name = "Value" /\ hist.nextRun >= 1 /\ op.ok) =>
          /\ op'.panic = NoPanic
          /\ op'.val = itr.value]_vars

C3_Witness ==
  /\ op.name = "Next" /\ op.ok
  /\ hist.nextRun = 2
  /\ Len(itr.buffer) > 0
  /\ hist.calls < Len(given)

\* C4: once Next has returned false, every later Next returns false and the
\* iterating function is never invoked again, whatever calls follow.
C4_ExhaustionSticky ==
  [][NextFalse =>
       /\ hist'.calls = hist.calls
       /\ op'.name = "Next" => ~op'.ok]_vars

C4_Witness ==
  /\ hist.exhaustedBy = "Next"
  /\ hist.unreadUsed
  /\ op.name = "Next" /\ ~op.ok
  /\ hist.nextRun = 2

\* C5: after Next has returned false (directly or inside ToSlice, SplitIntoRows
\* or SplitIntoColumns), every Value call panics with ErrValueExhaustedIter,
\* also when Unread was used before the exhaustion.
C5_ValueAfterExhaustion ==
  (NextFalse /\ op.name = "Value") => op.panic = ErrValueExhaustedIter

C5_Witness ==
  /\ hist.exhaustedBy = "SplitIntoColumns"
  /\ hist.unreadUsed
  /\ op.name = "Value" /\ op.panic = ErrValueExhaustedIter

\* C6: after Unread(v1), ..., Unread(vk) with no Next in between, the next k
\* Next/Value pairs return vk, ..., v1 in that order.
C6_UnreadLifo ==
  LET m == hist.mon
  IN m.phase = "pairs" =>
       IF m.expect = "Value"
       THEN op.name = "Next" /\ op.ok
       ELSE /\ op.name = "Value" /\ op.panic = NoPanic
            /\ op.val = m.run[Len(m.run) - m.served + 1]

C6_Witness ==
  LET m == hist.mon
  IN /\ m.phase = "pairs" /\ m.expect = "Next"
     /\ Len(m.run) = MaxBuf
     /\ m.served = Len(m.run)
     /\ m.run[1] # m.run[2]

\* C7: while the push-back buffer is non-empty Next does not invoke the
\* iterating function, and a value of the producer is returned by Value only
\* when the buffer is empty, the producer's values coming in producer order.
C7_BufferBeforeProducer ==
  [][/\ (op'.name = "Next" /\ Len(itr.buffer) > 0) => hist'.calls = hist.calls
     /\ (op'.name = "Value" /\ op'.ok /\ hist.cachedIdx > 0) =>
          /\ Len(itr.buffer) = 0
          /\ op'.val = given[hist.cachedIdx]
          /\ hist.cachedIdx > hist.lastProdIdx]_vars

C7_Witness ==
  /\ hist.unreadUsed
  /\ op.name = "Value" /\ op.ok
  /\ hist.cachedIdx = 1 /\ hist.lastProdIdx = 1
  /\ Len(returned) = 2

\* C8: Unread after Next has returned false panics with ErrUnreadExhaustedIter
\* and leaves the iterator exhausted with an empty buffer; Unread succeeds
\* whenever Next has not yet returned false.
C8_UnreadExhausted ==
  op.name = "Unread" =>
     IF NextFalse
     THEN op.panic = ErrUnreadExhaustedIter /\ IsNilFunc(itr.iter) /\ itr.buffer = <<>>
     ELSE op.panic = NoPanic /\ Len(itr.buffer) > 0 /\ Last(itr.buffer) = op.val

C8_Witness ==
  /\ op.name = "Unread" /\ op.panic = ErrUnreadExhaustedIter
  /\ hist.exhaustedBy = "Next"
  /\ returned = given /\ Len(given) = MaxLen

----------------------------------------------------------------------------
(* The pipelines under test: every Stream of up to MaxStreamStages stages  *)
(* followed by every Finisher of up to MaxFinStages stages.                *)

StreamStages ==
  {[stage |-> "Filter", f |-> p] : p \in Preds}
    \cup {[stage |-> "FilterNot", f |-> p] : p \in Preds}
    \cup {[stage |-> "Map", f |-> m] : m \in Maps}

FinisherStages ==
  {[stage |-> "Distinct"], [stage |-> "Duplicate"], [stage |-> "Sort"], [stage |-> "ReverseSort"]}
    \cup {[stage |-> "Skip", n |-> k] : k \in 1..MaxStageN}
    \cup {[stage |-> "Limit", n |-> k] : k \in 1..MaxStageN}

\* New().<stage>.<stage>...
RECURSIVE BuildStream(_)
BuildStream(stages) ==
  IF stages = <<>> THEN New
  ELSE LET s == BuildStream(Front(stages))
           st == Last(stages)
       IN CASE st.stage = "Filter" -> StreamFilter(s, st.f)
            [] st.stage = "FilterNot" -> StreamFilterNot(s, st.f)
            [] st.stage = "Map" -> StreamMap(s, st.f)

\* <stream>.AndThen().<stage>.<stage>...
RECURSIVE BuildFinisher(_, _)
BuildFinisher(s, stages) ==
  IF stages = <<>> THEN AndThen(s)
  ELSE LET fin == BuildFinisher(s, Front(stages))
           st == Last(stages)
       IN CASE st.stage = "Distinct" -> Distinct(fin)
            [] st.stage = "Duplicate" -> Duplicate(fin)
            [] st.stage = "Sort" -> Sort(fin, KeyLess)
            [] st.stage = "ReverseSort" -> ReverseSort(fin, KeyLess)
            [] st.stage = "Skip" -> Skip(fin, st.n)
            [] st.stage = "Limit" -> Limit(fin, st.n)
            [] st.stage = "SetReduce" -> SetReduce(fin, st.g)

Finishers ==
  {BuildFinisher(BuildStream(ss), fs) :
     ss \in SeqsUpTo(StreamStages, MaxStreamStages),
     fs \in SeqsUpTo(FinisherStages, MaxFinStages)}

ParFinishers ==
  {BuildFinisher(BuildStream(ss), fs) :
     ss \in SeqsUpTo(StreamStages, MaxStreamStages),
     fs \in SeqsUpTo(FinisherStages, MaxParFinStages)}

ParallelConfigs ==
  {ParallelConfig(n, f) :
     n \in 0..MaxItems, f \in {NumberOfGoroutines, NumberOfItemsPerGoroutine}}

IterIdle ==
  /\ given = <<>>
  /\ itr = Of(<<>>)
  /\ op = NoOp
  /\ returned = <<>>
  /\ hist = HistInit

----------------------------------------------------------------------------
(* One parallel terminal call, Finisher.ToSlice(source, pc), goroutine by  *)
(* goroutine.  par.workers[i] is the goroutine started for row i.          *)

InitPar ==
  /\ IterIdle
  /\ finisher \in
       ParFinishers
         \cup {AndThen(s) : s \in {StreamPeek(New, [kind |-> "record"]),
                                   StreamMap(StreamPeek(New, [kind |-> "record"]),
                                             [kind |-> "inc"])}}
         \cup {AndThen(s) : s \in UNION {{FinisherAndThen(BuildFinisher(New, <<st>>), NoConfig),
                                           StreamMap(FinisherAndThen(BuildFinisher(New, <<st>>),
                                                                     NoConfig),
                                                     [kind |-> "inc"])} : st \in FinisherStages}}
  /\ input \in SeqsUpTo(Values, MaxParLen)
  /\ pconf \in ParallelConfigs
  /\ current = NewIter(NilFunc)
  /\ output = <<>>
  /\ finished = FALSE
  /\ par = [ParIdle EXCEPT !.pc = "start"]
  /\ calls = CallsInit
  /\ threads = ThreadsIdle
  /\ built = BuiltNone

\* doParallel up to the loop over the rows
ParStart ==
  /\ par.pc = "start"
  /\ IF finisher.stream.transform.kind = "nil"
     THEN par' = [par EXCEPT !.pc = "generator", !.flatData = IterToSlice(Of(input)).slice]
     ELSE par' = [par EXCEPT
            !.pc = "spawn",
            !.splitData = ParallelSplit(Of(input), ParallelN(pconf.NumberOfItems), pconf.Flags)]
  /\ UNCHANGED <<finisher, input, pconf, current, output, finished, calls>>
  /\ UNCHANGED <<iterVars, threads, built>>

\* one iteration of for i, row := range splitData: wg.Add(1); go func(i, row)
ParSpawn ==
  /\ par.pc = "spawn"
  /\ par.i < Len(par.splitData)
  /\ par' = [par EXCEPT
       !.i = par.i + 1,
       !.workers = Append(par.workers,
                          [state |-> "started", row |-> par.splitData[par.i + 1],
                           it |-> NewIter(NilFunc), out |-> <<>>])]
  /\ UNCHANGED <<finisher, input, pconf, current, output, finished, calls>>
  /\ UNCHANGED <<iterVars, threads, built>>

\* the loop over the rows ends
ParSpawned ==
  /\ par.pc = "spawn"
  /\ par.i = Len(par.splitData)
  /\ par' = [par EXCEPT !.pc = "wait"]
  /\ UNCHANGED <<finisher, input, pconf, current, output, finished, calls>>
  /\ UNCHANGED <<iterVars, threads, built>>

\* goroutine i: splitData[i] = transform(iter.OfElements(row)).ToSlice(); wg.Done().
\* One step is one it.Next() of ToSlice, with the it.Value() and append that follow
\* it when it is true, and the store into splitData[i] when it is false; the first
\* step begins with transform(iter.OfElements(row)).
ParWorker(i) ==
  /\ i \in 1..Len(par.workers)
  /\ par.workers[i].state # "done"
  /\ LET w == par.workers[i]
         RECURSIVE SeenBy(_)
         SeenBy(it) ==
           IF IsNilFunc(it.iter) \/ it.iter.kind = "ArraySlice" THEN <<>>
           ELSE IF it.iter.kind = "StreamPeek" THEN it.iter.seen
           ELSE SeenBy(it.iter.it)
         Calls(before, after) ==
           [k \in 1..(Len(after) - Len(before)) |->
              [worker |-> i, val |-> after[Len(before) + k]]]
         Step(it0, nx) ==
           IF nx.ret
           THEN \E v \in {IterValue(nx.it)} :
                  par' = [par EXCEPT
                    !.workers[i] = [w EXCEPT !.state = "running", !.it = v.it,
                                             !.out = Append(w.out, v.ret)],
                    !.peeked = par.peeked \o Calls(SeenBy(it0), SeenBy(nx.it))]
           ELSE par' = [par EXCEPT
                  !.splitData[i] = w.out,
                  !.workers[i] = [w EXCEPT !.state = "done", !.it = nx.it]]
     IN \E it0 \in {IF w.state = "started"
                     THEN ApplyTransform(finisher.stream.transform, OfElements(w.row))
                     ELSE w.it} :
          \E nx \in {IterNext(it0)} : Step(it0, nx)
  /\ UNCHANGED <<finisher, input, pconf, current, output, finished, calls>>
  /\ UNCHANGED <<iterVars, threads, built>>

\* doParallel without wg.Wait()
ParNoWait ==
  /\ par.pc = "wait"
  /\ par' = [par EXCEPT !.pc = "generator", !.flatData = ParallelFlatten(par.splitData)]
  /\ UNCHANGED <<finisher, input, pconf, current, output, finished, calls>>
  /\ UNCHANGED <<iterVars, threads, built>>

\* wg.Wait() returns, then flatData = iter.FlattenArraySlice(splitData)
ParWait ==
  /\ par.pc = "wait"
  /\ \A i \in 1..Len(par.workers) : par.workers[i].state = "done"
  /\ par' = [par EXCEPT !.pc = "generator", !.flatData = ParallelFlatten(par.splitData)]
  /\ UNCHANGED <<finisher, input, pconf, current, output, finished, calls>>
  /\ UNCHANGED <<iterVars, threads, built>>

\* the generator is applied, doParallel returns, Finisher.Iter wraps the data in
\* an Iter and Finisher.ToSlice collects it
ParReturn ==
  /\ par.pc = "generator"
  /\ LET data == ParallelFinish(finisher.generator, par.flatData)
         d == IterToSlice(Of(data))
     IN /\ current' = d.it
        /\ output' = d.slice
  /\ finished' = TRUE
  /\ par' = [par EXCEPT !.pc = "done"]
  /\ calls' = [calls EXCEPT !.n = 1]
  /\ UNCHANGED <<finisher, input, pconf>>
  /\ UNCHANGED <<iterVars, threads, built>>

NextPar ==
  \/ ParStart
  \/ ParSpawn
  \/ ParSpawned
  \/ \E i \in 1..MaxParLen : ParWorker(i)
  \/ ParWait
  \/ ParReturn

SpecPar == InitPar /\ [][NextPar]_vars

\* what the same call returns without a ParallelConfig
Serial == FinisherToSlice(finisher, Of(input), NoConfig)

----------------------------------------------------------------------------
(* Properties of parallel execution, checked under SpecPar *)

\* C9: for every input, every ParallelConfig and every pipeline of Filter,
\* FilterNot and Map stages followed by Distinct, Duplicate, Skip, Limit, Sort and
\* ReverseSort stages, the result of the terminal call with the ParallelConfig
\* equals the serial result element for element, in every interleaving of the
\* goroutines.
C9_ParallelEqualsSerial ==
  par.pc = "done" => output = Serial

----------------------------------------------------------------------------
(* Terminal calls made one after another on one Finisher.  A terminal call *)
(* obtains its iterator from Finisher.Iter and reads it with Next/Value    *)
(* pairs: First stops after one pair, ToSlice reads to the end.            *)

InitFin ==
  /\ IterIdle
  /\ finisher \in Finishers
  /\ input = <<>>
  /\ pconf = NoConfig
  /\ current = NewIter(NilFunc)
  /\ output = <<>>
  /\ finished = FALSE
  /\ par = ParIdle
  /\ calls = CallsInit
  /\ threads = ThreadsIdle
  /\ built = BuiltNone

\* it := fin.Iter(source, pc...) at the start of a terminal call on source S
TerminalIter(S, p) ==
  /\ calls.n < MaxCalls
  /\ calls.n > 0 => (finished \/ output # <<>>)
  /\ input' = S
  /\ pconf' = p
  /\ current' = FinisherIter(finisher, Of(S), p)
  /\ output' = <<>>
  /\ finished' = FALSE
  /\ calls' = [n |-> calls.n + 1, prevPartial |-> calls.n > 0 /\ ~finished,
               prevOutput |-> output]
  /\ UNCHANGED <<finisher, par>>
  /\ UNCHANGED <<iterVars, threads, built>>

\* if it.Next() { val = it.Value() } in the terminal call
PullNext ==
  /\ calls.n > 0
  /\ ~finished
  /\ \E n \in {IterNext(current)} :
       IF n.ret
       THEN \E v \in {IterValue(n.it)} :
              /\ current' = v.it
              /\ output' = Append(output, v.ret)
              /\ finished' = FALSE
       ELSE /\ current' = n.it
            /\ output' = output
            /\ finished' = TRUE
  /\ UNCHANGED <<finisher, input, pconf, par, calls>>
  /\ UNCHANGED <<iterVars, threads, built>>

\* the ParallelConfig arguments tried for the terminal calls made in sequence
SeqConfigs == {NoConfig, ParallelConfig(0, NumberOfGoroutines)}

NextFin ==
  \/ \E S \in SeqsUpTo(Values, MaxLen), p \in SeqConfigs : TerminalIter(S, p)
  \/ PullNext

SpecFin == InitFin /\ [][NextFin]_vars

\* what a freshly built identical Finisher returns for the source of the current call
Fresh == FinisherToSlice(finisher, Of(input), pconf)

----------------------------------------------------------------------------
(* Goroutines sharing one Finisher, each making one terminal call on a      *)
(* source of its own: go func() { f.ToSlice(source, pc...) }().  The steps  *)
(* of the goroutines interleave in any order.                               *)

InitConc ==
  /\ IterIdle
  /\ finisher \in ParFinishers
  /\ input = <<>>
  /\ pconf = NoConfig
  /\ current = NewIter(NilFunc)
  /\ output = <<>>
  /\ finished = FALSE
  /\ par = ParIdle
  /\ calls = CallsInit
  /\ threads = ThreadsIdle
  /\ built = BuiltNone

\* a goroutine reading its iterator, some values read and more to come
MidCall(th) == th.state = "reading" /\ th.output # <<>>

\* go func() {...}() with the source and the ParallelConfig the goroutine will use
GoTerminal(S, p) ==
  /\ Len(threads) < MaxThreads
  /\ threads' = Append(threads,
       [state |-> "spawned", input |-> S, pconf |-> p,
        current |-> NewIter(NilFunc), output |-> <<>>, overlap |-> FALSE])
  /\ UNCHANGED <<finisher, input, pconf, current, output, finished, par, calls>>
  /\ UNCHANGED <<iterVars, built>>

\* goroutine t: it := fin.Iter(source, pc...)
ThreadIter(t) ==
  /\ t \in 1..Len(threads)
  /\ threads[t].state = "spawned"
  /\ threads' = [threads EXCEPT
       ![t].state = "reading",
       ![t].current = FinisherIter(finisher, Of(threads[t].input), threads[t].pconf),
       ![t].overlap = \E u \in 1..Len(threads) : MidCall(threads[u])]
  /\ UNCHANGED <<finisher, input, pconf, current, output, finished, par, calls>>
  /\ UNCHANGED <<iterVars, built>>

\* goroutine t: one round of for it.Next() { slice = append(slice, it.Value()) }
ThreadPull(t) ==
  /\ t \in 1..Len(threads)
  /\ threads[t].state = "reading"
  /\ \E n \in {IterNext(threads[t].current)} :
       IF n.ret
       THEN \E v \in {IterValue(n.it)} :
              threads' = [threads EXCEPT ![t].current = v.it,
                                         ![t].output = Append(@, v.ret)]
       ELSE threads' = [threads EXCEPT ![t].current = n.it, ![t].state = "done"]
  /\ UNCHANGED <<finisher, input, pconf, current, output, finished, par, calls>>
  /\ UNCHANGED <<iterVars, built>>

NextConc ==
  \/ \E S \in SeqsUpTo(Ints, MaxLen), p \in SeqConfigs : GoTerminal(S, p)
  \/ \E t \in 1..MaxThreads : ThreadIter(t)
  \/ \E t \in 1..MaxThreads : ThreadPull(t)

SpecConc == InitConc /\ [][NextConc]_vars

\* what the call of goroutine t returns when it runs alone
Alone(t) == FinisherToSlice(finisher, Of(threads[t].input), threads[t].pconf)

----------------------------------------------------------------------------
(* Properties of serial execution, checked under SpecFin *)

\* the Finisher and the source of TestSequence
TestSequence ==
  Limit(ReverseSort(Distinct(Skip(AndThen(
    StreamFilter(StreamMap(StreamMap(New, [kind |-> "double"]), [kind |-> "minus3"]),
                 [kind |-> "le7"])), 2)), KeyLess), 3)

TestSequenceSource ==
  <<IntV(1), IntV(2), IntV(1), IntV(3), IntV(4), IntV(3), IntV(5), IntV(6), IntV(7),
    IntV(7), IntV(8), IntV(9), IntV(10)>>

\* C12: without a ParallelConfig, Finisher.Iter(source) yields G(T(source)): T the
\* Stream's composed transform (the source itself if none), G the transform from
\* one fresh invocation of the Finisher's generator (nothing more if none); the
\* pipeline of TestSequence yields 7, 5, 3 and its first element is 7.
C12_SerialIsGenAfterTransform ==
  LET T(it) == IF finisher.stream.transform.kind = "nil" THEN it
               ELSE ApplyTransform(finisher.stream.transform, it)
      G(it) == IF finisher.generator.kind = "nil" THEN it
               ELSE ApplyTransform(Generate(finisher.generator), it)
      want == IterToSlice(G(T(Of(input)))).slice
      first == IterValue(IterNext(FinisherIter(TestSequence, Of(TestSequenceSource), NoConfig)).it)
  IN /\ (calls.n > 0 /\ pconf = NoConfig) =>
          /\ Len(output) <= Len(want)
          /\ output = SubSeq(want, 1, Len(output))
          /\ finished => output = want
     /\ calls.n = 0 =>
          /\ FinisherToSlice(TestSequence, Of(TestSequenceSource), NoConfig)
               = <<IntV(7), IntV(5), IntV(3)>>
          /\ first.ret = IntV(7)

C12_Witness ==
  /\ calls.n > 0 /\ pconf = NoConfig /\ finished
  /\ finisher.stream.transform.kind # "nil"
  /\ finisher.generator.kind = "composition"
  /\ output # <<>>
  /\ output # input

----------------------------------------------------------------------------
(* Building a pipeline call by call: s := New(), fin := s.AndThen(), then   *)
(* stage calls on s and on fin.  fin.stream points to s, so a stage added   *)
(* to s is seen by fin whenever it is added.                                *)

InitBuild ==
  /\ IterIdle
  /\ finisher = AndThen(New)
  /\ input = <<>>
  /\ pconf = NoConfig
  /\ current = NewIter(NilFunc)
  /\ output = <<>>
  /\ finished = FALSE
  /\ par = ParIdle
  /\ calls = CallsInit
  /\ threads = ThreadsIdle
  /\ built = BuiltNone

\* s.Filter(f), s.FilterNot(f) or s.Map(f)
CallStreamStage(st) ==
  /\ Len(built.stream) < MaxBuildStream
  /\ finisher' = [finisher EXCEPT !.stream =
       CASE st.stage = "Filter" -> StreamFilter(@, st.f)
         [] st.stage = "FilterNot" -> StreamFilterNot(@, st.f)
         [] st.stage = "Map" -> StreamMap(@, st.f)]
  /\ built' = [built EXCEPT !.stream = Append(@, st)]
  /\ UNCHANGED <<input, pconf, current, output, finished, par, calls, threads>>
  /\ UNCHANGED iterVars

\* fin.Distinct(), fin.Duplicate(), fin.Sort(less), fin.ReverseSort(less), fin.Skip(n),
\* fin.Limit(n) or fin.SetReduce(generator)
CallFinisherStage(st) ==
  /\ Len(built.fin) < MaxBuildFin
  /\ finisher' =
       CASE st.stage = "Distinct" -> Distinct(finisher)
         [] st.stage = "Duplicate" -> Duplicate(finisher)
         [] st.stage = "Sort" -> Sort(finisher, KeyLess)
         [] st.stage = "ReverseSort" -> ReverseSort(finisher, KeyLess)
         [] st.stage = "Skip" -> Skip(finisher, st.n)
         [] st.stage = "Limit" -> Limit(finisher, st.n)
         [] st.stage = "SetReduce" -> SetReduce(finisher, st.g)
  /\ built' = [built EXCEPT !.fin = Append(@, st)]
  /\ UNCHANGED <<input, pconf, current, output, finished, par, calls, threads>>
  /\ UNCHANGED iterVars

NextBuild ==
  \/ \E st \in StreamStages : CallStreamStage(st)
  \/ \E st \in FinisherStages
                \cup {[stage |-> "Skip", n |-> k] : k \in 0..MaxSkipN}
                \cup {[stage |-> "SetReduce", g |-> g] : g \in Reducers} :
       CallFinisherStage(st)

SpecBuild == InitBuild /\ [][NextBuild]_vars

\* C13: composition is left to right: after the stage calls t1, ..., tk on a
\* Stream, iterating a source yields tk(...t2(t1(source))), and likewise for the
\* generators g1, ..., gm added to the Finisher, applied after the Stream's
\* transforms; with no stage added the source's elements come back unchanged.
C13_LeftToRight ==
  LET RECURSIVE ThenStream(_, _)
      ThenStream(it, i) ==
        IF i > Len(built.stream) THEN it
        ELSE ThenStream(ApplyTransform(BuildStream(<<built.stream[i]>>).transform, it), i + 1)
      RECURSIVE ThenFin(_, _)
      ThenFin(it, i) ==
        IF i > Len(built.fin) THEN it
        ELSE ThenFin(
               ApplyTransform(Generate(BuildFinisher(New, <<built.fin[i]>>).generator), it),
               i + 1)
  IN \A S \in SeqsUpTo(Ints, MaxLen) :
       /\ IterToSlice(StreamIter(finisher.stream, Of(S))).slice
            = IterToSlice(ThenStream(Of(S), 1)).slice
       /\ FinisherToSlice(finisher, Of(S), NoConfig)
            = IterToSlice(ThenFin(ThenStream(Of(S), 1), 1)).slice
       /\ built = BuiltNone => FinisherToSlice(finisher, Of(S), NoConfig) = S

\* a Map(inc) added before a Filter(< 2), then two Finisher stages
C13_Witness ==
  /\ Len(built.stream) = MaxBuildStream
  /\ Len(built.fin) = MaxBuildFin
  /\ built.stream[1].stage = "Map" /\ built.stream[1].f.kind = "inc"
  /\ built.stream[2].stage = "Filter"
  /\ built.fin[1].stage = "Skip" /\ built.fin[2].stage = "Distinct"

----------------------------------------------------------------------------
(* Properties of SplitIntoRows and SplitIntoColumns, checked under Spec.    *)
(* The values of the iterator are what ToSlice would return before the call. *)

\* C14: SplitIntoRows(cols), cols > 0, on an iterator of n values returns
\* ceil(n/cols) rows; row i holds the values at indexes i*cols .. min(n, (i+1)*cols)-1
\* in order, every row but the last has cols values, the last between 1 and cols,
\* and n = 0 gives no row.
C14_RowsShape ==
  [][(op'.name = "SplitIntoRows" /\ op'.ok) =>
       LET vals == IterToSlice(itr).slice
           n == Len(vals)
           cols == op'.val.n
           rows == op'.split
           Min(a, b) == IF a < b THEN a ELSE b
       IN /\ Len(rows) = (n + cols - 1) \div cols
          /\ \A i \in 1..Len(rows) :
               /\ rows[i] = SubSeq(vals, (i - 1) * cols + 1, Min(n, i * cols))
               /\ i < Len(rows) => Len(rows[i]) = cols
               /\ Len(rows[i]) >= 1 /\ Len(rows[i]) <= cols
          /\ n = 0 => rows = <<>>]_vars

C14_Witness ==
  /\ op.name = "SplitIntoRows" /\ op.ok
  /\ op.val.n = 2
  /\ Len(op.split) = 2
  /\ Len(op.split[2]) = 1
  /\ hist.unreadUsed

\* C15: SplitIntoColumns(rows), rows > 0, on an iterator of n values returns
\* min(n, rows) partitions of contiguous values in input order: when n >= rows the
\* first n % rows partitions hold n/rows + 1 values and the others n/rows; when
\* n < rows there are n partitions of one value; n = 0 gives no partition.
C15_ColumnsShape ==
  [][(op'.name = "SplitIntoColumns" /\ op'.ok) =>
       LET vals == IterToSlice(itr).slice
           n == Len(vals)
           rows == op'.val.n
           parts == op'.split
           Min(a, b) == IF a < b THEN a ELSE b
           base == IF n < rows THEN 1 ELSE n \div rows
           extra == IF n < rows THEN 0 ELSE n % rows
           Start(i) == (i - 1) * base + Min(i - 1, extra)
           Size(i) == base + (IF i <= extra THEN 1 ELSE 0)
       IN /\ Len(parts) = Min(n, rows)
          /\ \A i \in 1..Len(parts) :
               /\ Len(parts[i]) = Size(i)
               /\ parts[i] = SubSeq(vals, Start(i) + 1, Start(i) + Size(i))
          /\ n = 0 => parts = <<>>]_vars

C15_Witness ==
  /\ op.name = "SplitIntoColumns" /\ op.ok
  /\ op.val.n = 2
  /\ Len(op.split) = 2
  /\ Len(op.split[1]) = 2 /\ Len(op.split[2]) = 1

\* C16: split then flatten is the identity: for every size k > 0, the partitions
\* returned by SplitIntoRows(k) or SplitIntoColumns(k), concatenated in partition
\* order, are the input sequence, and no partition is empty.
C16_SplitThenFlatten ==
  [][((op'.name = "SplitIntoRows" \/ op'.name = "SplitIntoColumns") /\ op'.ok) =>
       LET RECURSIVE Concatenated(_, _)
           Concatenated(parts, i) ==
             IF i > Len(parts) THEN <<>> ELSE parts[i] \o Concatenated(parts, i + 1)
       IN /\ Concatenated(op'.split, 1) = IterToSlice(itr).slice
          /\ \A i \in 1..Len(op'.split) : op'.split[i] # <<>>]_vars

C16_Witness ==
  /\ op.name = "SplitIntoColumns" /\ op.ok
  /\ op.val.n = 2
  /\ Len(op.split) = 2
  /\ Len(op.split[1]) + Len(op.split[2]) = 3
  /\ hist.unreadUsed

\* C17: SplitIntoRows(0) panics with ErrColsGreaterThanZero and SplitIntoColumns(0)
\* with ErrRowsGreaterThanZero, before any value is pulled: the iterator is as it
\* was and the iterating function has not been invoked.
C17_ZeroSizeFailsFast ==
  [][/\ (op'.name = "SplitIntoRows" /\ op'.val = IntV(0)) =>
          (op'.panic = ErrColsGreaterThanZero /\ itr' = itr /\ hist'.calls = hist.calls)
     /\ (op'.name = "SplitIntoColumns" /\ op'.val = IntV(0)) =>
          (op'.panic = ErrRowsGreaterThanZero /\ itr' = itr /\ hist'.calls = hist.calls)]_vars

C17_Witness ==
  /\ op.name = "SplitIntoRows" /\ op.panic = ErrColsGreaterThanZero
  /\ ~IsNilFunc(itr.iter)
  /\ hist.calls < Len(given)
  /\ Len(itr.buffer) > 0

----------------------------------------------------------------------------
(* Properties of single stages, checked under SpecBuild: the stage is added *)
(* to a pipeline, whose elements before the call are the stage's upstream.  *)

\* C18: Distinct emits, in encounter order, exactly the first occurrence of each
\* distinct upstream element: no element is repeated in the output, every value
\* that occurs upstream occurs in it, and it is a subsequence of the upstream.
C18_DistinctFirstOccurrences ==
  [][built'.fin = Append(built.fin, [stage |-> "Distinct"]) =>
       \A S \in SeqsUpTo(Values, MaxSrcLen) :
          LET up == FinisherToSlice(finisher, Of(S), NoConfig)
              out == FinisherToSlice(finisher', Of(S), NoConfig)
              IsFirst(i) == \A j \in 1..(i - 1) : up[j] # up[i]
              RECURSIVE Firsts(_)
              Firsts(i) == IF i > Len(up) THEN <<>>
                           ELSE (IF IsFirst(i) THEN <<up[i]>> ELSE <<>>) \o Firsts(i + 1)
          IN /\ out = Firsts(1)
             /\ \A i, j \in 1..Len(out) : i # j => out[i] # out[j]
             /\ {out[i] : i \in 1..Len(out)} = {up[i] : i \in 1..Len(up)}]_vars

C18_Witness ==
  /\ built.stream = <<>>
  /\ built.fin = <<[stage |-> "Skip", n |-> 1], [stage |-> "Distinct"]>>
  /\ \E S \in SeqsUpTo(Values, MaxSrcLen) :
       /\ Len(S) = MaxSrcLen
       /\ Len(FinisherToSlice(finisher, Of(S), NoConfig)) = 1

----------------------------------------------------------------------------
(* A serial terminal call of a pipeline that ends in Limit(n), on a source  *)
(* that may have no end: itr is the source handed to the call.              *)

\* the sources: seed, f(seed), f(f(seed)), ... without end, and finite ones
Sources ==
  {Iterate(IntV(seed), f) : seed \in 0..MaxSeed, f \in {[kind |-> "inc"], [kind |-> "double"]}}
    \cup {Of(S) : S \in SeqsUpTo(Ints, MaxLen)}

InitLimit ==
  /\ given = <<>>
  /\ itr \in Sources
  /\ op = NoOp
  /\ returned = <<>>
  /\ hist = HistInit
  /\ finisher \in {Limit(AndThen(s), n) : s \in {New, StreamMap(New, [kind |-> "inc"])},
                                          n \in 0..MaxLimit}
  /\ input = <<>>
  /\ pconf = NoConfig
  /\ current = NewIter(NilFunc)
  /\ output = <<>>
  /\ finished = FALSE
  /\ par = ParIdle
  /\ calls = CallsInit
  /\ threads = ThreadsIdle
  /\ built = BuiltNone

\* it := fin.Iter(source) at the start of the terminal call on the source itr
TerminalOnSource ==
  /\ calls.n = 0
  /\ current' = FinisherIter(finisher, itr, NoConfig)
  /\ calls' = [calls EXCEPT !.n = 1]
  /\ UNCHANGED <<finisher, input, pconf, output, finished, par, threads, built>>
  /\ UNCHANGED iterVars

NextLimit ==
  \/ TerminalOnSource
  \/ PullNext

SpecLimit == InitLimit /\ [][NextLimit]_vars

\* C20: Limit(n) emits the first min(n, upstream length) upstream elements in
\* order and then reports the end without pulling a further element from
\* upstream: over an unending source the call ends after exactly n pulls, and
\* Limit(0) pulls nothing.
C20_LimitStopsPulling ==
  [][LET n == finisher.generator.n
         RECURSIVE Take(_, _)
         Take(it, k) ==
           IF k = 0 THEN <<>>
           ELSE LET Rest(v) == <<v.ret>> \o Take(v.it, k - 1)
                    Cond(nx) == IF ~nx.ret THEN <<>> ELSE Rest(IterValue(nx.it))
                IN Cond(IterNext(it))
         upstream == Take(StreamIter(finisher.stream, itr), n)
         RECURSIVE Pulls(_)
         Pulls(it) == IF IsNilFunc(it.iter) THEN -1
                      ELSE IF it.iter.kind = "Iterate" THEN it.iter.pulls
                      ELSE IF it.iter.kind = "ArraySlice" THEN it.iter.idx
                      ELSE Pulls(it.iter.it)
     IN /\ (calls'.n > 0 /\ ~finished') =>
             /\ Len(output') <= n
             /\ output' = SubSeq(upstream, 1, Len(output'))
             /\ Pulls(current') = Len(output')
        /\ finished' => output' = upstream
        /\ (finished' /\ ~finished /\ Len(output) = n) =>
             /\ ~Call(current.iter).ok
             /\ Pulls(NewIter(Call(current.iter).p)) = n]_vars

C20_Witness ==
  /\ finished
  /\ itr.iter.kind = "Iterate"
  /\ finisher.stream.transform.kind # "nil"
  /\ finisher.generator.n = MaxLimit
  /\ Len(output) = MaxLimit

\* C21: Skip(n) discards the first n upstream elements once and emits all the
\* remaining ones in order; an upstream of n or fewer elements gives an empty
\* result and no panic; only the first pull skips: when Skip reads the source
\* directly, the k-th pull leaves the source at position n + k.
C21_SkipOnce ==
  [][\A n \in 0..MaxSkipN :
       built'.fin = Append(built.fin, [stage |-> "Skip", n |-> n]) =>
         \A S \in SeqsUpTo(Values, MaxSrcLen) :
            LET up == FinisherToSlice(finisher, Of(S), NoConfig)
                out == FinisherToSlice(finisher', Of(S), NoConfig)
                RECURSIVE Positions(_, _)
                Positions(it, k) ==
                  LET Rest(v) ==
                        /\ v.panic = NoPanic
                        /\ v.it.iter.it.iter.idx = n + k
                        /\ Positions(v.it, k + 1)
                      Cond(nx) == IF ~nx.ret THEN k = Len(out) + 1 ELSE Rest(IterValue(nx.it))
                  IN Cond(IterNext(it))
            IN /\ out = SubSeq(up, n + 1, Len(up))
               /\ Len(up) <= n => out = <<>>
               /\ built = BuiltNone =>
                    Positions(FinisherIter(finisher', Of(S), NoConfig), 1)]_vars

C21_Witness ==
  /\ built.stream = <<>>
  /\ built.fin = <<[stage |-> "Distinct"], [stage |-> "Skip", n |-> MaxSkipN]>>
  /\ \E S \in SeqsUpTo(Values, MaxSrcLen) :
       /\ Len(S) = MaxSrcLen
       /\ Len(FinisherToSlice(finisher, Of(S), NoConfig)) = 1

\* C22: for a comparator that is a strict total order on the elements (KeyLess
\* on ints, or on the pairs a Map makes of them), Sort emits a permutation of
\* the upstream elements in ascending order and ReverseSort one in descending
\* order, and the first pull of the sorted iterator drains the upstream.
C22_SortAscendingReverseDescending ==
  [][\A st \in {[stage |-> "Sort"], [stage |-> "ReverseSort"]} :
       built'.fin = Append(built.fin, st) =>
         \A S \in SeqsUpTo(Ints, MaxSrcLen) :
            LET up == FinisherToSlice(finisher, Of(S), NoConfig)
                out == FinisherToSlice(finisher', Of(S), NoConfig)
                Count(q, x) == Cardinality({i \in 1..Len(q) : q[i] = x})
                Drained(r) ==
                  /\ r.p.kind = "Sort" /\ r.p.done
                  /\ IsNilFunc(r.p.it.iter)
                  /\ r.ok <=> up # <<>>
            IN /\ Len(out) = Len(up)
               /\ \A x \in {up[i] : i \in 1..Len(up)} : Count(out, x) = Count(up, x)
               /\ \A i, j \in 1..Len(out) : i < j =>
                    IF st.stage = "Sort"
                    THEN ~ApplyLess(KeyLess, out[j], out[i])
                    ELSE ~ApplyLess(KeyLess, out[i], out[j])
               /\ Drained(Call(FinisherIter(finisher', Of(S), NoConfig).iter))]_vars

C22_Witness ==
  /\ built.stream = <<[stage |-> "Map", f |-> [kind |-> "pair"]]>>
  /\ built.fin = <<[stage |-> "Skip", n |-> 1], [stage |-> "ReverseSort"]>>
  /\ \E S \in SeqsUpTo(Ints, MaxSrcLen) :
       /\ Len(S) = MaxSrcLen
       /\ FinisherToSlice(finisher, Of(S), NoConfig) # S
       /\ FinisherToSlice(finisher, Of(S), NoConfig)[1] # FinisherToSlice(finisher, Of(S), NoConfig)[2]

\* C23: Sort and ReverseSort are stable: two upstream elements that the
\* comparator treats as equal (neither is less than the other) come out in the
\* relative order they had upstream.
C23_SortsAreStable ==
  [][\A st \in {[stage |-> "Sort"], [stage |-> "ReverseSort"]} :
       built'.fin = Append(built.fin, st) =>
         \A S \in SeqsUpTo(Values, MaxSrcLen) :
            LET up == FinisherToSlice(finisher, Of(S), NoConfig)
                out == FinisherToSlice(finisher', Of(S), NoConfig)
                elements == {up[i] : i \in 1..Len(up)}
                Tied(x, y) == ~ApplyLess(KeyLess, x, y) /\ ~ApplyLess(KeyLess, y, x)
                Only(q, x, y) == LET In(e) == e \in {x, y} IN SelectSeq(q, In)
            IN \A x, y \in elements :
                 (x # y /\ Tied(x, y)) => Only(out, x, y) = Only(up, x, y)]_vars

----------------------------------------------------------------------------
(* Properties of parallel execution, checked under SpecPar *)

\* C24: Finisher stages are applied serially to the whole flattened data set and
\* never per partition: for every pipeline whose elements are ints throughout,
\* also one where a Finisher stage is followed by Stream stages through
\* Finisher.AndThen(), the call with a ParallelConfig returns what the serial
\* call returns.
C24_FinisherStagesOnWholeData ==
  LET IntsOnly(q) == \A k \in 1..Len(q) : q[k].kind = "int"
  IN (/\ par.pc = "done"
      /\ IntsOnly(input)
      /\ \A i \in 1..Len(par.splitData) : IntsOnly(par.splitData[i]))
       => output = Serial

\* C25: the flattened sequence is the concatenation of the goroutines' results
\* in partition order: each element of a result is one element of the flattened
\* sequence, whatever its value.
C25_FlattenIsConcatenation ==
  [][(par.pc = "wait" /\ par'.pc = "generator") =>
       LET RECURSIVE Concatenated(_, _)
           Concatenated(parts, i) ==
             IF i > Len(parts) THEN <<>> ELSE parts[i] \o Concatenated(parts, i + 1)
       IN par'.flatData = Concatenated(par.splitData, 1)]_vars

\* C26: in a parallel call of a pipeline that begins with Peek, the callback is
\* called once for each source element, and the calls made for the elements of
\* one partition happen in input order in every interleaving of the goroutines:
\* at any moment the calls made by goroutine i are the first elements of its
\* partition, as many as it has read, and all of them once it is done.
C26_PeekOncePerElementInOrder ==
  LET t == finisher.stream.transform
      BeginsWithPeek ==
        \/ t.kind = "StreamPeek"
        \/ t.kind = "composition" /\ t.f1.kind = "StreamPeek"
      By(i) == LET Mine(c) == c.worker = i IN SelectSeq(par.peeked, Mine)
      Vals(q) == [k \in 1..Len(q) |-> q[k].val]
  IN BeginsWithPeek =>
       /\ \A k \in 1..Len(par.peeked) : par.peeked[k].worker \in 1..Len(par.workers)
       /\ \A i \in 1..Len(par.workers) :
            /\ Vals(By(i)) = SubSeq(par.workers[i].row, 1, Len(par.workers[i].out))
            /\ par.workers[i].state = "done" => Vals(By(i)) = par.workers[i].row
       /\ par.pc = "done" => Len(par.peeked) = Len(input)

\* the callback sees the third source element before the second one
C26_Witness ==
  /\ par.pc = "done"
  /\ finisher.stream.transform.kind = "composition"
  /\ Len(par.workers) = 2
  /\ Len(par.peeked) = 3
  /\ par.peeked[1].worker = 1 /\ par.peeked[2].worker = 2 /\ par.peeked[3].worker = 1
  /\ par.peeked[2].val = input[3] /\ par.peeked[3].val = input[2]
  /\ input[2] # input[3]

----------------------------------------------------------------------------
(* The terminal calls AllMatch, AnyMatch and NoneMatch, one loop iteration   *)
(* at a time.  op holds the call: its name, its predicate f and the value   *)
(* of its result variable; output holds the elements read so far.           *)

\* it := fin.Iter(source, pc...) with allMatch := true, anyMatch := false or
\* noneMatch := true
TerminalMatch(name, f, S, p) ==
  /\ calls.n = 0
  /\ input' = S
  /\ pconf' = p
  /\ current' = FinisherIter(finisher, Of(S), p)
  /\ op' = [name |-> name, f |-> f, ok |-> (name # "AnyMatch"), val |-> Nil,
            panic |-> NoPanic, split |-> <<>>]
  /\ calls' = [calls EXCEPT !.n = 1]
  /\ UNCHANGED <<given, itr, returned, hist>>
  /\ UNCHANGED <<finisher, output, finished, par, threads, built>>

\* AllMatch whose loop has no break
AllMatchLoopNoBreak ==
  /\ calls.n > 0 /\ ~finished /\ op.name = "AllMatch"
  /\ \E n \in {IterNext(current)} :
       IF n.ret
       THEN \E v \in {IterValue(n.it)} :
              /\ current' = v.it
              /\ output' = Append(output, v.ret)
              /\ op' = [op EXCEPT !.ok = ApplyPred(op.f, v.ret)]
              /\ finished' = FALSE
       ELSE /\ current' = n.it
            /\ finished' = TRUE
            /\ UNCHANGED <<output, op>>
  /\ UNCHANGED <<given, itr, returned, hist>>
  /\ UNCHANGED <<finisher, input, pconf, par, calls, threads, built>>

\* AllMatch: for ...; it.Next(); { if allMatch = f(it.Value()); !allMatch { break } }
AllMatchLoop ==
  /\ calls.n > 0 /\ ~finished /\ op.name = "AllMatch"
  /\ \E n \in {IterNext(current)} :
       IF n.ret
       THEN \E v \in {IterValue(n.it)} :
              /\ current' = v.it
              /\ output' = Append(output, v.ret)
              /\ op' = [op EXCEPT !.ok = ApplyPred(op.f, v.ret)]
              /\ finished' = ~ApplyPred(op.f, v.ret)
       ELSE /\ current' = n.it
            /\ finished' = TRUE
            /\ UNCHANGED <<output, op>>
  /\ UNCHANGED <<given, itr, returned, hist>>
  /\ UNCHANGED <<finisher, input, pconf, par, calls, threads, built>>

\* AnyMatch: for ...; it.Next(); { if anyMatch = f(it.Value()); anyMatch { break } }
AnyMatchLoop ==
  /\ calls.n > 0 /\ ~finished /\ op.name = "AnyMatch"
  /\ \E n \in {IterNext(current)} :
       IF n.ret
       THEN \E v \in {IterValue(n.it)} :
              /\ current' = v.it
              /\ output' = Append(output, v.ret)
              /\ op' = [op EXCEPT !.ok = ApplyPred(op.f, v.ret)]
              /\ finished' = ApplyPred(op.f, v.ret)
       ELSE /\ current' = n.it
            /\ finished' = TRUE
            /\ UNCHANGED <<output, op>>
  /\ UNCHANGED <<given, itr, returned, hist>>
  /\ UNCHANGED <<finisher, input, pconf, par, calls, threads, built>>

\* NoneMatch: for ...; it.Next(); { if noneMatch = !f(it.Value()); !noneMatch { break } }
NoneMatchLoop ==
  /\ calls.n > 0 /\ ~finished /\ op.name = "NoneMatch"
  /\ \E n \in {IterNext(current)} :
       IF n.ret
       THEN \E v \in {IterValue(n.it)} :
              /\ current' = v.it
              /\ output' = Append(output, v.ret)
              /\ op' = [op EXCEPT !.ok = ~ApplyPred(op.f, v.ret)]
              /\ finished' = ApplyPred(op.f, v.ret)
       ELSE /\ current' = n.it
            /\ finished' = TRUE
            /\ UNCHANGED <<output, op>>
  /\ UNCHANGED <<given, itr, returned, hist>>
  /\ UNCHANGED <<finisher, input, pconf, par, calls, threads, built>>

NextMatch ==
  \/ \E name \in {"AllMatch", "AnyMatch", "NoneMatch"},
        f \in Preds \cup {[kind |-> "not", f |-> g] : g \in Preds},
        S \in SeqsUpTo(Values, MaxSrcLen), p \in SeqConfigs :
       TerminalMatch(name, f, S, p)
  \/ AllMatchLoop
  \/ AnyMatchLoop
  \/ NoneMatchLoop

SpecMatch == InitFin /\ [][NextMatch]_vars

\* C27: AllMatch, AnyMatch and NoneMatch return "every element satisfies f",
\* "some element satisfies f" and "no element satisfies f" over the pipeline
\* output (true, false, true when it is empty); a serial call stops pulling at
\* the first element that decides the answer: it has read the output up to that
\* element and no further, and what follows it in the source is not consumed.
C27_MatchShortCircuit ==
  (calls.n > 0 /\ finished) =>
     LET full == FinisherToSlice(finisher, Of(input), pconf)
         Sat(k) == ApplyPred(op.f, full[k])
         Decides(k) == IF op.name = "AllMatch" THEN ~Sat(k) ELSE Sat(k)
         deciding == {k \in 1..Len(full) : Decides(k)}
         first == IF deciding = {} THEN Len(full)
                  ELSE CHOOSE k \in deciding : \A j \in deciding : k <= j
         OneToOne == /\ finisher.generator.kind = "nil"
                     /\ finisher.stream.transform.kind \in {"nil", "StreamMap"}
         RECURSIVE Pulls(_)
         Pulls(it) == IF IsNilFunc(it.iter) THEN -1
                      ELSE IF it.iter.kind = "ArraySlice" THEN it.iter.idx
                      ELSE Pulls(it.iter.it)
     IN /\ op.name = "AllMatch" => (op.ok <=> \A k \in 1..Len(full) : Sat(k))
        /\ op.name = "AnyMatch" => (op.ok <=> \E k \in 1..Len(full) : Sat(k))
        /\ op.name = "NoneMatch" => (op.ok <=> ~\E k \in 1..Len(full) : Sat(k))
        /\ full = <<>> => (op.ok <=> op.name # "AnyMatch")
        /\ output = SubSeq(full, 1, first)
        /\ (pconf = NoConfig /\ OneToOne /\ deciding # {}) => Pulls(current) = first

C27_Witness ==
  /\ calls.n > 0 /\ finished
  /\ op.name = "AllMatch" /\ ~op.ok
  /\ pconf = NoConfig
  /\ finisher.stream.transform.kind = "nil"
  /\ finisher.generator.kind = "nil"
  /\ Len(output) = 2
  /\ Len(input) = MaxSrcLen

----------------------------------------------------------------------------
(* The terminal call ToByteWriter, one loop iteration at a time.  op holds   *)
(* the call: buf[0:count] as op.buf, totalCount, the byte slices handed to  *)
(* w.Write so far, what each w.Write returned as op.results, and the values *)
(* returned.  The writer is any io.Writer: a Write of count bytes returns   *)
(* (count, nil) or (n, err) with n <= count.                                *)

\* it := fin.Iter(source, pc...) with count = 0 and totalCount = 0
CallToByteWriter(S, p) ==
  /\ calls.n = 0
  /\ input' = S
  /\ pconf' = p
  /\ current' = FinisherIter(finisher, Of(S), p)
  /\ op' = [name |-> "ToByteWriter", buf |-> <<>>, totalCount |-> 0, writes |-> <<>>,
            results |-> <<>>, ret |-> [n |-> 0, err |-> FALSE], ok |-> FALSE, val |-> Nil,
            panic |-> NoPanic, split |-> <<>>]
  /\ calls' = [calls EXCEPT !.n = 1]
  /\ UNCHANGED <<given, itr, returned, hist>>
  /\ UNCHANGED <<finisher, output, finished, par, threads, built>>

\* writeOp that does not reset count
writeOpNoReset(o, res) ==
  [o EXCEPT !.writes = Append(o.writes, o.buf),
            !.totalCount = o.totalCount + res.n,
            !.ret = [n |-> o.totalCount + res.n, err |-> res.err]]

\* writeOp that goes on as if the Write had succeeded
writeOpIgnoreError(o, res) ==
  [o EXCEPT !.writes = Append(o.writes, o.buf),
            !.totalCount = o.totalCount + res.n,
            !.buf = <<>>,
            !.ret = [n |-> o.totalCount + res.n, err |-> FALSE]]

\* writeOp, for the result res of w.Write(buf[0:count])
writeOp(o, res) ==
  IF res.err
  THEN [o EXCEPT !.writes = Append(o.writes, o.buf),
                 !.totalCount = o.totalCount + res.n,
                 !.ret = [n |-> o.totalCount + res.n, err |-> TRUE]]
  ELSE [o EXCEPT !.writes = Append(o.writes, o.buf),
                 !.totalCount = o.totalCount + res.n,
                 !.buf = <<>>,
                 !.ret = [n |-> o.totalCount + res.n, err |-> FALSE]]

\* one iteration of the loop of ToByteWriter, and what follows the loop when
\* it.Next() is false
ToByteWriterLoop ==
  /\ calls.n > 0 /\ ~finished /\ op.name = "ToByteWriter"
  /\ LET Write(count) ==
           {[n |-> count, err |-> FALSE]} \cup {[n |-> k, err |-> TRUE] : k \in 0..count}
         Written(o2, res) ==
           /\ op' = [o2 EXCEPT !.results = Append(@, res)]
           /\ finished' = o2.ret.err
         Full(o1) ==
           IF Len(o1.buf) = toWriterBufSize
           THEN \E res \in Write(Len(o1.buf)) : Written(writeOp(o1, res), res)
           ELSE /\ op' = o1
                /\ finished' = FALSE
         Body(b) ==
           IF b.panic # NoPanic
           THEN /\ current' = b.it
                /\ op' = [op EXCEPT !.panic = b.panic]
                /\ finished' = TRUE
                /\ output' = output
           ELSE /\ current' = b.it
                /\ output' = Append(output, IntV(b.ret))
                /\ Full([op EXCEPT !.buf = Append(op.buf, b.ret)])
         Cond(n) ==
           IF n.ret THEN Body(IterByteValue(n.it))
           ELSE /\ current' = n.it
                /\ output' = output
                /\ finished' = TRUE
                /\ IF Len(op.buf) > 0
                   THEN \E res \in Write(Len(op.buf)) :
                          op' = [writeOp(op, res) EXCEPT !.results = Append(@, res)]
                   ELSE op' = [op EXCEPT !.ret = [n |-> op.totalCount, err |-> FALSE]]
     IN Cond(IterNext(current))
  /\ UNCHANGED <<given, itr, returned, hist>>
  /\ UNCHANGED <<finisher, input, pconf, par, calls, threads, built>>

NextWriter ==
  \/ \E S \in SeqsUpTo(Ints, MaxBytes), p \in SeqConfigs : CallToByteWriter(S, p)
  \/ ToByteWriterLoop

SpecWriter == InitFin /\ [][NextWriter]_vars

\* C28: when no Write fails, ToByteWriter over a pipeline output of L byte
\* elements hands the writer exactly those L bytes in order, in ceil(L/B) Write
\* calls, B the buffer size: every call but the last carries B bytes, the last
\* carries the remainder (between 1 and B bytes), L = 0 gives no Write call, and
\* the call returns (L, nil).
C28_ToByteWriterChunks ==
  (calls.n > 0 /\ finished /\ op.panic = NoPanic /\ ~op.ret.err) =>
     LET full == FinisherToSlice(finisher, Of(input), pconf)
         L == Len(full)
         B == toWriterBufSize
         k == Len(op.writes)
         RECURSIVE Concatenated(_, _)
         Concatenated(parts, i) ==
           IF i > Len(parts) THEN <<>> ELSE parts[i] \o Concatenated(parts, i + 1)
     IN /\ Concatenated(op.writes, 1) = [i \in 1..L |-> full[i].n % 256]
        /\ k = (L + B - 1) \div B
        /\ \A i \in 1..k : i < k => Len(op.writes[i]) = B
        /\ k > 0 => (Len(op.writes[k]) = L - (k - 1) * B /\ Len(op.writes[k]) \in 1..B)
        /\ L = 0 => op.writes = <<>>
        /\ op.ret = [n |-> L, err |-> FALSE]

C28_Witness ==
  /\ calls.n > 0 /\ finished /\ op.panic = NoPanic /\ ~op.ret.err
  /\ finisher.stream.transform.kind # "nil"
  /\ Len(op.writes) = 3
  /\ Len(op.writes[3]) = 1
  /\ op.ret.n = MaxBytes

----------------------------------------------------------------------------
(* Properties of SetReduce, checked under SpecBuild *)

\* C29: SetReduce on an empty upstream performs no reduction: the generated
\* function is not invoked and no value is added to the output.
C29_SetReduceEmptyInput ==
  [][\A g \in Reducers :
       built'.fin = Append(built.fin, [stage |-> "SetReduce", g |-> g]) =>
         \A S \in SeqsUpTo(Values, MaxSrcLen) :
            LET up == FinisherToSlice(finisher, Of(S), NoConfig)
                out == FinisherToSlice(finisher', Of(S), NoConfig)
                FirstPull(r) == r.p.invoked = 0 /\ ~r.ok
            IN up = <<>> =>
                 /\ out = <<>>
                 /\ FirstPull(Call(FinisherIter(finisher', Of(S), NoConfig).iter))]_vars

\* C30: when the generated function returns its accumulated value with the
\* flag false, the reduction is complete and the value is added to the output,
\* and reductions go on with the rest of the input: the output holds the value
\* of every reduction, in order, up to the end of the input.
C30_SetReduceCompleteValueKept ==
  [][\A g \in Reducers :
       built'.fin = Append(built.fin, [stage |-> "SetReduce", g |-> g]) =>
         \A S \in SeqsUpTo(Values, MaxSrcLen) :
            LET out == FinisherToSlice(finisher', Of(S), NoConfig)
                RECURSIVE Reductions(_)
                Reductions(it) ==
                  LET Rest(r) == IF r.val = Nil THEN <<>> ELSE <<r.val>> \o Reductions(r.it)
                  IN Rest(ApplyReduce(ReduceGenerate(g), it))
            IN out = Reductions(FinisherIter(finisher, Of(S), NoConfig))]_vars

----------------------------------------------------------------------------
(* Splitting an exhausted iterator *)

\* C33: a SplitIntoRows or SplitIntoColumns call made on an iterator that is
\* already exhausted panics
C33_SplitExhaustedPanics ==
  [][(IsNilFunc(itr.iter) /\ op'.name \in {"SplitIntoRows", "SplitIntoColumns"})
       => op'.panic # NoPanic]_vars

----------------------------------------------------------------------------
(* Unread after a Next whose value was never read *)

\* the last call was an Unread that discarded the value cached by Next, and that
\* value was the k-th one made by the iterating function
C37_Discarded(k) ==
  /\ op.name = "Unread" /\ op.ok
  /\ hist.nextSinceValue
  /\ hist.cachedIdx = k

\* C37: an Unread(v) made after a successful Next whose value was not read drops
\* the cached value: the next Next/Value pair returns v, the iterating function
\* stays after the dropped value, and no later Value returns the dropped value
C37_UnreadDiscardsCached ==
  \A k \in 1..MaxLen :
    /\ [](C37_Discarded(k) =>
            /\ ~itr.nextCalled
            /\ itr.iter.idx = k
            /\ hist.lastProdIdx < k
            /\ LET Pair(n) == n.ret /\ IterValue(n.it).ret = op.val
                              /\ IterValue(n.it).panic = NoPanic
               IN Pair(IterNext(itr)))
    /\ [](C37_Discarded(k) => [](hist.lastProdIdx # k))

\* the value cached by Next came from the iterating function and an Unread dropped it
C37_Witness ==
  \E k \in 1..MaxLen : C37_Discarded(k) /\ given[k] # op.val /\ k < Len(given)

----------------------------------------------------------------------------
(* The fields of an exhausted Iter *)

\* C40: once the iterating function has been cleared, the push-back buffer is
\* empty and the next-called flag is false, whatever calls were made
C40_ExhaustedIsClean ==
  IsNilFunc(itr.iter) => (itr.buffer = <<>> /\ ~itr.nextCalled)

\* the iterator was exhausted after values had been pushed back, and a failing
\* Unread was then tried on it
C40_Witness ==
  /\ IsNilFunc(itr.iter)
  /\ hist.unreadUsed
  /\ op.name = "Unread" /\ op.panic = ErrUnreadExhaustedIter

----------------------------------------------------------------------------
(* A failing Write in ToByteWriter *)

\* C35: when a Write made by ToByteWriter returns an error, that Write is the
\* last one: the call is over, it returns the error with the sum of the byte
\* counts the writer reported, and the elements pulled from the pipeline are
\* those whose bytes were handed to the writer, none after the failing Write
C35_WriteErrorReturnsAtOnce ==
  op.name = "ToByteWriter" =>
    LET RECURSIVE Reported(_)
        Reported(i) == IF i = 0 THEN 0 ELSE op.results[i].n + Reported(i - 1)
        RECURSIVE Handed(_)
        Handed(i) == IF i = 0 THEN 0 ELSE Len(op.writes[i]) + Handed(i - 1)
        k == Len(op.results)
    IN /\ Len(op.writes) = k
       /\ \A i \in 1..k : op.results[i].err =>
            /\ i = k
            /\ finished
            /\ op.ret = [n |-> Reported(k), err |-> TRUE]
            /\ Len(output) = Handed(k)
            /\ output = [j \in 1..Len(output) |->
                           FinisherToSlice(finisher, Of(input), pconf)[j]]

\* the second Write of a call failed after the writer took part of the buffer,
\* with elements still left in the pipeline
C35_Witness ==
  /\ op.name = "ToByteWriter"
  /\ Len(op.results) = 2
  /\ op.results[2] = [n |-> 1, err |-> TRUE]
  /\ op.ret = [n |-> toWriterBufSize + 1, err |-> TRUE]
  /\ Len(output) < Len(FinisherToSlice(finisher, Of(input), pconf))

----------------------------------------------------------------------------
(* The goroutines of a parallel terminal call *)

\* the partition that goroutine i is to work on, as a piece of the source of n
\* elements: rows of N elements for NumberOfItemsPerGoroutine, and for
\* NumberOfGoroutines min(n, N) rows whose sizes differ by at most one, larger first
C34_Partition(i) ==
  LET n == Len(input)
      N == IF pconf.NumberOfItems = 0 THEN 50 ELSE pconf.NumberOfItems
      Min(a, b) == IF a < b THEN a ELSE b
      rows == Min(n, N)
      q == n \div rows
      r == n % rows
      first == IF pconf.Flags = NumberOfItemsPerGoroutine THEN (i - 1) * N
               ELSE (i - 1) * q + Min(i - 1, r)
      size == IF pconf.Flags = NumberOfItemsPerGoroutine THEN Min(N, n - first)
              ELSE q + (IF i <= r THEN 1 ELSE 0)
  IN [k \in 1..size |-> input[first + k]]

\* the number of partitions
C34_Partitions ==
  LET n == Len(input)
      N == IF pconf.NumberOfItems = 0 THEN 50 ELSE pconf.NumberOfItems
  IN IF pconf.Flags = NumberOfItemsPerGoroutine THEN (n + N - 1) \div N
     ELSE IF n < N THEN n ELSE N

\* C34: in a parallel terminal call on a Stream with a transform, one goroutine
\* is started per partition, goroutine i works on partition i and stores into
\* slot i only, once, when it has finished, and the slots are flattened only
\* after every goroutine has finished
C34_OneWorkerPerPartition ==
  [][finisher.stream.transform.kind # "nil" =>
       /\ Len(par'.workers) <= C34_Partitions
       /\ par'.pc \in {"wait", "generator", "done"} => Len(par'.workers) = C34_Partitions
       /\ \A i \in 1..Len(par'.workers) : par'.workers[i].row = C34_Partition(i)
       /\ par.pc # "start" =>
            /\ Len(par'.splitData) = Len(par.splitData)
            /\ \A j \in 1..Len(par.splitData) :
                 LET finishes == /\ j <= Len(par.workers)
                                 /\ par.workers[j].state # "done"
                                 /\ par'.workers[j].state = "done"
                 IN /\ par'.splitData[j] # par.splitData[j] => finishes
                    /\ finishes =>
                         /\ par'.splitData[j] = par.workers[j].out
                         /\ \A k \in 1..Len(par.workers) :
                              k # j => par'.workers[k] = par.workers[k]
                    /\ (j <= Len(par.workers) /\ par.workers[j].state = "done")
                         => par'.workers[j] = par.workers[j]
       /\ par'.flatData # par.flatData =>
            /\ \A i \in 1..Len(par.workers) : par.workers[i].state = "done"
            /\ Len(par.workers) = C34_Partitions
            /\ par'.splitData = par.splitData]_vars

\* three goroutines were started for three elements, the second has finished
\* and stored its result while the first is still running
C34_Witness ==
  /\ finisher.stream.transform.kind # "nil"
  /\ Len(par.workers) = MaxParLen
  /\ par.workers[1].state = "running"
  /\ par.workers[2].state = "done"
  /\ par.splitData[2] = par.workers[2].out
  /\ par.pc = "wait"

----------------------------------------------------------------------------
(* Stage calls made on a Stream after its Finisher was obtained *)

\* C39: a stage added to the Stream after AndThen() is part of what the
\* Finisher obtained earlier computes from then on, between the Stream's earlier
\* stages and the Finisher's own stages, which the call leaves as they were; a
\* stage added to the Finisher leaves the Stream as it was
C39_LateStreamStageApplies ==
  [][/\ built'.stream # built.stream =>
          LET st == Last(built'.stream)
              Staged(seq) ==
                CASE st.stage = "Filter" -> SelectSeq(seq, LAMBDA e : ApplyPred(st.f, e))
                  [] st.stage = "FilterNot" -> SelectSeq(seq, LAMBDA e : ~ApplyPred(st.f, e))
                  [] st.stage = "Map" -> [i \in 1..Len(seq) |-> ApplyMap(st.f, seq[i])]
              Finished(seq) ==
                IF finisher.generator.kind = "nil" THEN seq
                ELSE IterToSlice(ApplyTransform(Generate(finisher.generator), Of(seq))).slice
          IN /\ finisher'.generator = finisher.generator
             /\ \A S \in SeqsUpTo(Ints, MaxLen) :
                  FinisherToSlice(finisher', Of(S), NoConfig)
                    = Finished(Staged(IterToSlice(StreamIter(finisher.stream, Of(S))).slice))
     /\ built'.fin # built.fin => finisher'.stream = finisher.stream]_vars

\* Distinct was added to the Finisher and Map(inc) to the Stream it came from:
\* the Finisher maps before it removes duplicates
C39_Witness ==
  /\ built.stream = <<[stage |-> "Map", f |-> [kind |-> "inc"]]>>
  /\ built.fin = <<[stage |-> "Distinct"]>>
  /\ FinisherToSlice(finisher, Of(<<IntV(1), IntV(1)>>), NoConfig) = <<IntV(2)>>

----------------------------------------------------------------------------
(* The generator of SetReduce *)

\* C36: every output element of SetReduce is made by a function that the
\* generator has just returned, with its variables at their initial values:
\* nothing a function accumulated for one output element is seen by the next
C36_SetReduceFreshState ==
  [][\A g \in Reducers :
       built'.fin = Append(built.fin, [stage |-> "SetReduce", g |-> g]) =>
         \A S \in SeqsUpTo(Values, MaxSrcLen) :
            LET out == FinisherToSlice(finisher', Of(S), NoConfig)
                RECURSIVE EachFresh(_)
                EachFresh(it) ==
                  LET Rest(r) == IF ~r.ok THEN <<>> ELSE <<r.val>> \o EachFresh(r.it)
                  IN Rest(ApplyReduce([kind |-> g.kind, array |-> <<>>], it))
            IN out = EachFresh(FinisherIter(finisher, Of(S), NoConfig))]_vars

\* the collecting function made two arrays from 1, 2, 1: the second one does
\* not hold the element of the first
C36_Witness ==
  /\ built.fin = <<[stage |-> "SetReduce", g |-> [kind |-> "collect"]]>>
  /\ built.stream = <<>>
  /\ FinisherToSlice(finisher, Of(<<IntV(1), IntV(2), IntV(1)>>), NoConfig)
       = <<ArrV(<<IntV(1)>>), ArrV(<<IntV(1)>>)>>

----------------------------------------------------------------------------
(* Iterators made by Concat and OfReaderLines, read to their end with       *)
(* for it.Next() { it.Value() }.  input holds what the iterator was made    *)
(* from: the elements of each Iter given to Concat, or the runes of the     *)
(* reader; op.name says which.                                              *)

\* the runes of the readers: a letter, carriage return and line feed
Runes == {"a", "CR", "LF"}

InitSource ==
  /\ given = <<>>
  /\ itr = Of(<<>>)
  /\ returned = <<>>
  /\ hist = HistInit
  /\ finisher = AndThen(New)
  /\ pconf = NoConfig
  /\ \/ /\ input \in SeqsUpTo(SeqsUpTo(Ints, MaxLen), MaxConcat)
        /\ current = Concat([j \in 1..Len(input) |-> Of(input[j])])
        /\ op = [NoOp EXCEPT !.name = "Concat"]
     \/ /\ input \in SeqsUpTo(Runes, MaxRunes)
        /\ current = NewIter(ReaderToLinesIterFunc(input))
        /\ op = [NoOp EXCEPT !.name = "OfReaderLines"]
  /\ output = <<>>
  /\ finished = FALSE
  /\ par = ParIdle
  /\ calls = [CallsInit EXCEPT !.n = 1]
  /\ threads = ThreadsIdle
  /\ built = BuiltNone

SpecSource == InitSource /\ [][PullNext]_vars

\* C31: Concat yields the elements of its first iterator, then of the second,
\* and so on, each in its own order, whatever iterators are empty, and does not
\* touch an iterator before every iterator ahead of it has reported exhaustion
C31_ConcatInOrder ==
  op.name = "Concat" =>
    LET RECURSIVE Flat(_)
        Flat(j) == IF j > Len(input) THEN <<>> ELSE input[j] \o Flat(j + 1)
        all == Flat(1)
    IN /\ Len(output) <= Len(all)
       /\ output = [k \in 1..Len(output) |-> all[k]]
       /\ finished => output = all
       /\ ~IsNilFunc(current.iter) =>
            \A j \in 1..Len(input) :
              /\ j > current.iter.i + 1 => current.iter.iters[j] = Of(input[j])
              /\ j <= current.iter.i => IsNilFunc(current.iter.iters[j].iter)
              /\ ~IsNilFunc(current.iter.iters[j].iter)
                   => current.iter.iters[j].iter.idx <= Len(output)

\* Concat of an empty iterator, then one of two elements, then one of one
\* element, read to the end
C31_Witness ==
  /\ op.name = "Concat"
  /\ Len(input) = MaxConcat
  /\ input[1] = <<>>
  /\ Len(input[2]) = 2
  /\ Len(input[3]) = 1
  /\ finished
  /\ Len(output) = 3

\* C32: the lines returned by ReaderToLinesIterFunc are the pieces obtained by
\* cutting the input at every CR, LF and CRLF: an LF ends a line unless the rune
\* right before it is a CR, no line holds a CR or LF, and nothing follows the
\* last line
C32_LinesCutAtEveryEOL ==
  (op.name = "OfReaderLines" /\ finished) =>
    LET RECURSIVE Lines(_, _)
        Lines(i, str) ==
          IF i > Len(input) THEN (IF str = <<>> THEN <<>> ELSE <<StrV(str)>>)
          ELSE IF input[i] = "CR"
          THEN <<StrV(str)>>
                 \o Lines(IF i < Len(input) /\ input[i + 1] = "LF" THEN i + 2 ELSE i + 1, <<>>)
          ELSE IF input[i] = "LF" THEN <<StrV(str)>> \o Lines(i + 1, <<>>)
          ELSE Lines(i + 1, Append(str, input[i]))
    IN /\ output = Lines(1, <<>>)
       /\ \A k \in 1..Len(output) :
            \A c \in 1..Len(output[k].elems) : output[k].elems[c] \notin {"CR", "LF"}

----------------------------------------------------------------------------
(* Finisher.Iter with a ParallelConfig on the sources of SpecLimit, one     *)
(* element of the source at a time.  doParallel begins by reading the       *)
(* source with for it.Next() { it.Value() }, in source.ToSlice(),           *)
(* source.SplitIntoColumns(n) or source.SplitIntoRows(n); par.flatData      *)
(* holds the elements read so far.                                          *)

\* fin.Iter(source, pc) is called on the source itr
ParallelOnSource(p) ==
  /\ calls.n = 0
  /\ par.pc = "idle"
  /\ pconf' = p
  /\ par' = [par EXCEPT !.pc = "drain"]
  /\ UNCHANGED <<finisher, input, current, output, finished, calls, threads, built>>
  /\ UNCHANGED iterVars

\* the loop over the source that is left after its first iteration
DrainStepFirstOnly ==
  /\ par.pc = "drain"
  /\ \E n \in {IterNext(itr)} :
       IF n.ret /\ Len(par.flatData) = 0
       THEN \E v \in {IterValue(n.it)} :
              /\ itr' = v.it
              /\ par' = [par EXCEPT !.flatData = Append(par.flatData, v.ret)]
              /\ UNCHANGED <<current, calls>>
       ELSE /\ itr' = itr
            /\ par' = [par EXCEPT !.pc = "done"]
            /\ current' = FinisherIter(finisher, Of(par.flatData), pconf)
            /\ calls' = [calls EXCEPT !.n = 1]
  /\ UNCHANGED <<finisher, input, pconf, output, finished, threads, built>>
  /\ UNCHANGED <<given, op, returned, hist>>

\* one iteration of the loop over the source; when it.Next() is false the rest of
\* doParallel runs on the elements read and Finisher.Iter returns iter.Of(data...)
DrainStep ==
  /\ par.pc = "drain"
  /\ \E n \in {IterNext(itr)} :
       IF n.ret
       THEN \E v \in {IterValue(n.it)} :
              /\ Len(par.flatData) < MaxDrain
              /\ itr' = v.it
              /\ par' = [par EXCEPT !.flatData = Append(par.flatData, v.ret)]
              /\ UNCHANGED <<current, calls>>
       ELSE /\ itr' = n.it
            /\ par' = [par EXCEPT !.pc = "done"]
            /\ current' = FinisherIter(finisher, Of(par.flatData), pconf)
            /\ calls' = [calls EXCEPT !.n = 1]
  /\ UNCHANGED <<finisher, input, pconf, output, finished, threads, built>>
  /\ UNCHANGED <<given, op, returned, hist>>

NextDrain ==
  \/ \E p \in ParallelConfigs : ParallelOnSource(p)
  \/ DrainStep
  \/ PullNext

SpecDrain == InitLimit /\ [][NextDrain]_vars

\* C38: Finisher.Iter with a ParallelConfig returns only after the source has
\* reported its end, with every element of the source read, however few the
\* Limit stage lets through; on a source that never ends it does not return
C38_ParallelDrainsSource ==
  [][/\ (~IsNilFunc(itr'.iter) /\ itr'.iter.kind = "Iterate")
          => (par'.pc # "done" /\ calls'.n = 0)
     /\ (par.pc = "drain" /\ par'.pc = "done") =>
          /\ itr.iter.kind = "ArraySlice"
          /\ par.flatData = itr.iter.items
          /\ IsNilFunc(itr'.iter)
     /\ par'.pc = "done" => IsNilFunc(itr'.iter)
     /\ (calls'.n > 0 /\ finished') =>
          Len(output') = IF finisher.generator.n < Len(par'.flatData)
                         THEN finisher.generator.n ELSE Len(par'.flatData)]_vars

\* a Limit(1) pipeline in a parallel call on a generated sequence: more elements
\* than Limit lets through have been read and the call has not returned
C38_Witness ==
  /\ par.pc = "drain"
  /\ ~IsNilFunc(itr.iter) /\ itr.iter.kind = "Iterate"
  /\ Len(par.flatData) = MaxDrain
  /\ finisher.generator.kind = "Limit" /\ finisher.generator.n = 1

====
